---- MODULE Spec2Model ----
(***************************************************************************)
(* Model of drvSimDetector.c, the simulated area-detector driver.          *)
(*                                                                         *)
(* One device instance: its parameter library, the two frame buffers, the  *)
(* framesRemaining counter, the mutex and the wake event, the background   *)
(* thread simTask, the thread running simDetectorConfig and one external   *)
(* caller of the driver entry points.                                      *)
(*                                                                         *)
(* Units: times (ADAcquireTime, ADAcquirePeriod) are held in units of half *)
(* a millisecond, so that the intensity increment gain*time*1000 is a      *)
(* multiple of 1/2 and fractional increments are representable; gains are  *)
(* integers.  C ints are 32 bits wide; sums and products that the code     *)
(* evaluates in int are evaluated with Add32 / Mul32.                      *)
(***************************************************************************)
EXTENDS Integers, Sequences, FiniteSets, TLC

\* ------------------------------------------------------------------ bounds
MaxFrames == 4
MaxNumFrames == 2
MaxFileNumber == 1
MaxConfigs == 2

\* ------------------------------------------------------- program constants
INT_MAX == 2147483647
INT_MIN == -2147483647 - 1

AREA_DETECTOR_OK == 0
AREA_DETECTOR_ERROR == -1

ADInt8 == 0
ADUInt8 == 1
ADInt16 == 2
ADUInt16 == 3
ADInt32 == 4
ADUInt32 == 5
ADFloat32 == 6
ADFloat64 == 7

ADFrameSingle == 0
ADFrameMultiple == 1
ADFrameContinuous == 2

ADStatusIdle == 0
ADStatusAcquire == 1

SimFormatBinary == 0
SimFormatASCII == 1

NOBODY == "nobody"
TASK == "simTask"
CONFIG == "simDetectorConfig"
CALLER == "caller"

\* --------------------------------------------------------- 32-bit int code
\* a + b evaluated in a 32-bit int (two's complement wrap on overflow).
Add32(a, b) ==
    IF b >= 0
    THEN IF a > INT_MAX - b THEN (a - INT_MAX - 1) + (b - INT_MAX - 1) ELSE a + b
    ELSE IF a < INT_MIN - b THEN (a + INT_MAX + 1) + (b + INT_MAX + 1) ELSE a + b

\* -a evaluated in a 32-bit int.
Neg32(a) == IF a = INT_MIN THEN INT_MIN ELSE 0 - a

\* a - b evaluated in a 32-bit int.
Sub32(a, b) == IF b = INT_MIN THEN Add32(Add32(a, INT_MAX), 1) ELSE Add32(a, 0 - b)

\* The 16-bit halves of the 32-bit pattern of a.
Lo16(a) == a % 65536

Hi16(a) == ((a - Lo16(a)) \div 65536) % 65536

\* For x, y in 0..65535: the low and the high part of x * y, the product
\* being formed from partial products that fit.
MulLow16(x, y) == (x * (y % 256) + 256 * ((x * (y \div 256)) % 256)) % 65536

MulHigh16(x, y) ==
    (x * (y % 256) + 256 * ((x * (y \div 256)) % 256)) \div 65536
    + (x * (y \div 256)) \div 256

\* The int whose 32-bit pattern has the halves hi and lo.
Join16(hi, lo) == IF hi >= 32768 THEN (hi - 65536) * 65536 + lo ELSE hi * 65536 + lo

\* a * b evaluated in a 32-bit int (two's complement wrap on overflow).
Mul32(a, b) ==
    Join16((MulHigh16(Lo16(a), Lo16(b)) + MulLow16(Hi16(a), Lo16(b))
            + MulLow16(Lo16(a), Hi16(b))) % 65536,
           MulLow16(Lo16(a), Lo16(b)))

\* C integer division (truncation toward zero), b # 0.
DivC(a, b) ==
    IF (a >= 0 /\ b > 0) THEN a \div b
    ELSE IF (a < 0 /\ b > 0) THEN 0 - ((0 - a) \div b)
    ELSE IF (a >= 0 /\ b < 0) THEN 0 - (a \div (0 - b))
    ELSE (0 - a) \div (0 - b)

\* ------------------------------------------------------------- pixel types
\* The pixel types whose values the model holds: the integer types of 8, 16
\* and 32 signed bits.  ADUInt32, ADFloat32 and ADFloat64 are not drawn as
\* inputs.
IntegerTypes == {ADInt8, ADUInt8, ADInt16, ADUInt16, ADInt32}

\* ADUtils->bytesPerPixel
bytesPerPixel(dataType) ==
    CASE dataType \in {ADInt8, ADUInt8} -> 1
      [] dataType \in {ADInt16, ADUInt16} -> 2
      [] dataType \in {ADInt32, ADUInt32, ADFloat32} -> 4
      [] dataType = ADFloat64 -> 8
      [] OTHER -> 0

bytesPerPixelStatus(dataType) ==
    IF dataType \in 0..7 THEN AREA_DETECTOR_OK ELSE AREA_DETECTOR_ERROR

IsSigned(dataType) == dataType \in {ADInt8, ADInt16, ADInt32}

Pow2(w) == CASE w = 8 -> 256 [] w = 16 -> 65536 [] OTHER -> 0

Bits(dataType) == 8 * bytesPerPixel(dataType)

\* The value of the w-bit pattern congruent to v, read as dataType
\* (only 8- and 16-bit types wrap inside the integer range of the model).
Wrap(dataType, v) ==
    IF Bits(dataType) \in {8, 16}
    THEN LET m == Pow2(Bits(dataType))
             u == v % m
         IN  IF IsSigned(dataType) /\ u >= m \div 2 THEN u - m ELSE u
    ELSE v

InRange(dataType, v) ==
    CASE dataType = ADInt8   -> v \in -128..127
      [] dataType = ADUInt8  -> v \in 0..255
      [] dataType = ADInt16  -> v \in -32768..32767
      [] dataType = ADUInt16 -> v \in 0..65535
      [] OTHER -> TRUE

\* (DATA_TYPE)x for a double x holding the integer v.  In range the value
\* is kept.  Out of range the conversion is undefined in C; conv is the
\* outcome of the build: "wrap" converts through a 32-bit signed integer and
\* truncates (x86), "saturate" converts to the nearest value of the 32-bit
\* integer of the same signedness and truncates (ARM VCVT).
CastDouble(dataType, v, conv) ==
    IF InRange(dataType, v) THEN v
    ELSE IF conv = "saturate" /\ ~IsSigned(dataType) /\ v < 0 THEN 0
         ELSE Wrap(dataType, v)

\* (DATA_TYPE)increment for increment = h/2: truncation toward zero.
TruncHalf(h) == DivC(h, 2)

\* ------------------------------------------------------------------- state
VARIABLES
    cfgPc,            \* simDetectorConfig: "unconfigured", "created", "computing", "returned"
    params,           \* pCamera->params: the parameter library, key -> value
    framesRemaining,  \* pCamera->framesRemaining
    mutexOwner,       \* pCamera->mutexId: the thread holding it, or NOBODY
    eventFull,        \* pCamera->eventId: TRUE when signalled and not yet consumed
    rawBuffer,        \* pCamera->rawBuffer: pixel values, row-major
    imageBuffer,      \* pCamera->imageBuffer: pixel values, row-major
    bufferSize,       \* pCamera->bufferSize, bytes
    callbackSet,      \* pCamera->pImageDataCallback # NULL
    fileSys,          \* the files simWriteFile has written, by file number
    build,            \* what the build makes of undefined behaviour: [fp, ovf]
    numCameras,       \* the static numCameras
    notified,         \* what the last ADParam->callCallbacks told the registered
                      \* callbacks ADStatus and ADAcquire are
    allCameras,       \* the static allCameras: for each instance of the array, the
                      \* mutexes, events, parameter libraries and simTask threads
                      \* simDetectorConfig has created for it; <<>> is the null pointer
    taskPc,           \* simTask: position in the loop
    acquiring,        \* simTask local: acquiring
    delayBase,        \* simTask locals: max(acquireTime, acquirePeriod), half milliseconds
    callerPc,         \* the external caller: "out" or "in" (inside an entry point, mutex held)
    call,             \* the entry point the external caller is in, with its arguments
    lastStatus,       \* status returned by the caller's last entry point
    crashed,          \* the process called a null function pointer
    delivered,        \* image-data callbacks made since the last start command
    startMode,        \* ADFrameMode read by the last start command; -1 when there was
                      \* none, or a stop or frame-mode command has followed it
    startN,           \* ADNumFrames read by that start command in mode multiple, else 0
    dirty,            \* a geometry/type/gain/exposure parameter changed since the last synthesis
    settled,          \* no geometry, type or image-size parameter was written since the
                      \* last simComputeImage
    synth,            \* the last synthesis: its reset flag, and dirty when it ran
    alloc,            \* what the last call of simAllocateBuffer did: "none" before the
                      \* first call, else AllocOutcome of the call
    op                \* the caller's last entry point: what it was (kind), what the file
                      \* system did to it (io), whether a step of it reported an
                      \* error (failed), and for ADGetImage the maxBytes it was given
                      \* and the number of bytes memcpy was asked to copy

vars == <<cfgPc, params, framesRemaining, mutexOwner, eventFull, rawBuffer,
          imageBuffer, bufferSize, callbackSet, fileSys, build, numCameras, allCameras,
          notified, taskPc, acquiring, delayBase, callerPc, call, lastStatus, crashed,
          delivered, startMode, startN, dirty, settled, synth, alloc, op>>

\* The part of the state owned by the device instance (guarded by the mutex).
device == <<params, framesRemaining, rawBuffer, imageBuffer, bufferSize>>

\* What the driver leaves as it is once the instance is configured.
fixed == <<build, numCameras, allCameras>>

\* History variables: they record what happened and never influence the code.
history == <<delivered, startMode, startN, dirty, settled, synth, alloc, op>>

\* ------------------------------------------------------- parameter library
\* ADUtils->setParamDefaults followed by the settings of simDetectorConfig.
ConfigParams(maxSizeX, maxSizeY, dataType) ==
    [ ADAcquire |-> 0, ADStatus |-> ADStatusIdle,
      ADFrameMode |-> ADFrameContinuous, ADNumFrames |-> 100,
      ADBinX |-> 1, ADBinY |-> 1, ADMinX |-> 0, ADMinY |-> 0,
      ADSizeX |-> maxSizeX, ADSizeY |-> maxSizeY,
      ADMaxSizeX |-> maxSizeX, ADMaxSizeY |-> maxSizeY,
      ADImageSizeX |-> maxSizeX, ADImageSizeY |-> maxSizeY, ADImageSize |-> 0,
      ADDataType |-> dataType, SimResetImage |-> 1,
      ADAcquireTime |-> 2, ADAcquirePeriod |-> 10,
      ADGain |-> 1, SimGainX |-> 1, SimGainY |-> 1,
      ADAutoSave |-> 0, ADWriteFile |-> 0, ADReadFile |-> 0,
      ADFileNumber |-> 0, ADAutoIncrement |-> 0, ADFileFormat |-> SimFormatBinary,
      ADFullFileName |-> -1 ]

IntegerKeys == {"ADAcquire", "ADStatus", "ADFrameMode", "ADNumFrames", "ADBinX", "ADBinY",
                "ADMinX", "ADMinY", "ADSizeX", "ADSizeY", "ADMaxSizeX", "ADMaxSizeY",
                "ADImageSizeX", "ADImageSizeY", "ADImageSize", "ADDataType",
                "SimResetImage", "ADAutoSave", "ADWriteFile", "ADReadFile",
                "ADFileNumber", "ADAutoIncrement", "ADFileFormat"}

DoubleKeys == {"ADAcquireTime", "ADAcquirePeriod", "ADGain", "SimGainX", "SimGainY"}

\* ADParam->setInteger / setDouble: the new library.
SetParam(p, key, value) == [p EXCEPT ![key] = value]

\* ADParam->callCallbacks: the registered callbacks are told the values of
\* the library p.  Kept for the two parameters of the acquisition state.
callCallbacks(p) == [ADStatus |-> p.ADStatus, ADAcquire |-> p.ADAcquire]

\* ADParam->callCallbacks was never called.
NeverNotified == [ADStatus |-> -1, ADAcquire |-> -1]

\* --------------------------------------------------------- frame buffers
\* malloc'ed memory is uninitialised: every pixel reads as fill.
Fresh(n, fill) == [k \in 1..n |-> fill]

\* A null buffer pointer: the buffers before the first allocation, and what
\* a failed malloc leaves.
NoBuffer == <<>>

\* What malloc gives is drawn with the fill: MallocFailed stands for the
\* null pointer of a failed malloc, any other fill for memory that reads as
\* that value.
MallocFailed == -1

malloc(n, fill) == IF fill = MallocFailed THEN NoBuffer ELSE Fresh(n, fill)

\* Memory that is read before it is written: the fill.
Garbage(fill) == IF fill = MallocFailed THEN 0 ELSE fill

\* No call of simAllocateBuffer was made.
NoAlloc == [made |-> FALSE]

\* Mutant: the buffers are reallocated on every call.
simAllocateBuffer_Always(raw, img, bsz, sizeX, sizeY, dataType, fill) ==
    LET bpp == bytesPerPixel(dataType)
        newSize == Mul32(Mul32(sizeX, sizeY), bpp)
        npix == IF sizeX > 0 /\ sizeY > 0 /\ bpp > 0 THEN sizeX * sizeY ELSE 0
    IN  [rawBuffer |-> malloc(npix, fill), imageBuffer |-> malloc(npix, fill),
         bufferSize |-> newSize, status |-> bytesPerPixelStatus(dataType),
         realloc |-> TRUE]

\* simAllocateBuffer: [rawBuffer, imageBuffer, bufferSize, status, realloc]
\* realloc is TRUE when both buffers were freed and allocated anew.  The
\* result of malloc is not looked at; the status is that of bytesPerPixel.
simAllocateBuffer(raw, img, bsz, sizeX, sizeY, dataType, fill) ==
    LET bpp == bytesPerPixel(dataType)
        newSize == Mul32(Mul32(sizeX, sizeY), bpp)
        npix == IF sizeX > 0 /\ sizeY > 0 /\ bpp > 0 THEN sizeX * sizeY ELSE 0
    IN  IF newSize # bsz
        THEN [rawBuffer |-> malloc(npix, fill), imageBuffer |-> malloc(npix, fill),
              bufferSize |-> newSize, status |-> bytesPerPixelStatus(dataType),
              realloc |-> TRUE]
        ELSE [rawBuffer |-> raw, imageBuffer |-> img, bufferSize |-> bsz,
              status |-> bytesPerPixelStatus(dataType), realloc |-> FALSE]

\* ------------------------------------------------------- image computation
RECURSIVE SumRun(_, _, _)
\* f[first] + ... + f[first + n - 1]
SumRun(f, first, n) ==
    IF n = 0 THEN 0 ELSE f[first] + SumRun(f, first + 1, n - 1)

RECURSIVE SumBlock(_, _, _, _, _)
\* The sum of the bx x by block of f whose first pixel is at index first,
\* the rows of f being stride apart.
SumBlock(f, first, stride, bx, by) ==
    IF by = 0 THEN 0
    ELSE SumRun(f, first, bx) + SumBlock(f, first + stride, stride, bx, by - 1)

\* The parameter corrections of simComputeImage: the values of
\* binX, binY, minX, minY, sizeX, sizeY after "Make sure parameters are
\* consistent, fix them if they are not".
CorrectBin(bin) == IF bin < 0 THEN 0 ELSE bin

CorrectMin(min, maxSize) ==
    LET m1 == IF min < 0 THEN 0 ELSE min
    IN  IF m1 > Sub32(maxSize, 1) THEN Sub32(maxSize, 1) ELSE m1

\* min is the corrected offset; the sum is evaluated in int.  When it
\* overflows the behaviour is undefined in C; ovf is the outcome of the
\* build: "wrap" adds modulo 2^32 and compares, "exact" is a compiler that
\* relies on the absence of overflow and compares size with maxSize - min.
CorrectSize(min, size, maxSize, ovf) ==
    LET over == IF ovf = "exact" THEN size > Sub32(maxSize, min)
                ELSE Add32(min, size) > maxSize
    IN  IF over THEN Sub32(maxSize, min) ELSE size

\* COMPUTE_ARRAY(DATA_TYPE): the raw buffer after the synthesis.  h is
\* 2*increment, i.e. gain * exposureTime * 1000 in halves.
ComputeArray(raw, dataType, maxSizeX, maxSizeY, resetImage, gainX, gainY, h, conv) ==
    LET inc == CastDouble(dataType, TruncHalf(h), conv)
        n == IF maxSizeX > 0 /\ maxSizeY > 0 THEN maxSizeX * maxSizeY ELSE 0
        Acc(v) == IF Bits(dataType) = 32 THEN Add32(v, inc) ELSE Wrap(dataType, v + inc)
    IN  IF resetImage # 0
        THEN [k \in 1..n |->
                LET i == (k - 1) \div maxSizeX
                    j == (k - 1) % maxSizeX
                IN  CastDouble(dataType, j * gainX + i * gainY + inc, conv)]
        ELSE [k \in 1..n |-> Acc(raw[k])]

\* ADUtils->convertImage with equal input and output types: the region of
\* interest (startX, startY, regionSizeX, regionSizeY) of the sizeXIn x sizeYIn
\* input, binned binX x binY by summation.  A binning factor below 1 is
\* taken as 1.  [sizeXOut, sizeYOut, data]
convertImage(imageIn, dataType, sizeXIn, sizeYIn, binX, binY, startX, startY, regionSizeX, regionSizeY) ==
    LET bx == IF binX < 1 THEN 1 ELSE binX
        by == IF binY < 1 THEN 1 ELSE binY
        sizeXOut == DivC(regionSizeX, bx)
        sizeYOut == DivC(regionSizeY, by)
        inside == /\ startX >= 0 /\ startY >= 0
                  /\ regionSizeX >= 0 /\ regionSizeY >= 0
                  /\ regionSizeX <= sizeXIn - startX
                  /\ regionSizeY <= sizeYIn - startY
                  /\ Len(imageIn) = sizeXIn * sizeYIn
        First(r, c) == (startY + r * by) * sizeXIn + (startX + c * bx) + 1
    IN  [sizeXOut |-> sizeXOut, sizeYOut |-> sizeYOut,
         data |-> IF inside
                  THEN [k \in 1..(sizeXOut * sizeYOut) |->
                          Wrap(dataType,
                               SumBlock(imageIn, First((k - 1) \div sizeXOut,
                                                       (k - 1) % sizeXOut),
                                        sizeXIn, bx, by))]
                  ELSE NoBuffer]

\* Mutant: the published width and height are exchanged.
PublishImage_Swapped(p, imageSize, imageSizeX, imageSizeY) ==
    [p EXCEPT !.ADImageSize = imageSize,
              !.ADImageSizeX = imageSizeY, !.ADImageSizeY = imageSizeX,
              !.SimResetImage = 0]

\* The end of simComputeImage: the image size is published and the reset
\* flag is cleared.
PublishImage(p, imageSize, imageSizeX, imageSizeY) ==
    [p EXCEPT !.ADImageSize = imageSize,
              !.ADImageSizeX = imageSizeX, !.ADImageSizeY = imageSizeY,
              !.SimResetImage = 0]

\* simComputeImage: [params, rawBuffer, imageBuffer, bufferSize, status,
\* resetImage, alloc, fault].  alloc is the call of simAllocateBuffer it made.
\* fault is TRUE when the synthesis writes through a null buffer pointer;
\* the process ends there.
simComputeImage(p, raw, img, bsz, fill, conv) ==
    LET dataType == p.ADDataType
        maxSizeX == p.ADMaxSizeX
        maxSizeY == p.ADMaxSizeY
        resetImage == p.SimResetImage
        bpp  == bytesPerPixel(dataType)
        binX == CorrectBin(p.ADBinX)
        binY == CorrectBin(p.ADBinY)
        minX == CorrectMin(p.ADMinX, maxSizeX)
        minY == CorrectMin(p.ADMinY, maxSizeY)
        sizeX == CorrectSize(minX, p.ADSizeX, maxSizeX, conv.ovf)
        sizeY == CorrectSize(minY, p.ADSizeY, maxSizeY, conv.ovf)
        a == simAllocateBuffer(raw, img, bsz, maxSizeX, maxSizeY, dataType, fill)
        n == IF maxSizeX > 0 /\ maxSizeY > 0 THEN maxSizeX * maxSizeY ELSE 0
        \* bytes kept from a different layout read as arbitrary pixel values
        before == IF Len(a.rawBuffer) = n THEN a.rawBuffer ELSE Fresh(n, Garbage(fill))
        fault == a.rawBuffer = NoBuffer /\ a.bufferSize # 0 /\ n > 0
        newRaw == IF dataType \in IntegerTypes
                  THEN ComputeArray(before, dataType, maxSizeX, maxSizeY, resetImage,
                                    p.SimGainX, p.SimGainY, p.ADGain * p.ADAcquireTime,
                                    conv.fp)
                  ELSE a.rawBuffer
        c == convertImage(newRaw, dataType, maxSizeX, maxSizeY, binX, binY,
                          minX, minY, sizeX, sizeY)
        imageSize == Mul32(Mul32(c.sizeXOut, c.sizeYOut), bpp)
        asked == [made |-> TRUE, sizeX |-> maxSizeX, sizeY |-> maxSizeY,
                 dataType |-> dataType, result |-> a]
    IN  IF fault
        THEN [params |-> p, rawBuffer |-> a.rawBuffer, imageBuffer |-> a.imageBuffer,
              bufferSize |-> a.bufferSize, status |-> a.status,
              resetImage |-> resetImage # 0, alloc |-> asked, fault |-> TRUE]
        ELSE [params |-> PublishImage([p EXCEPT !.ADBinX = binX, !.ADBinY = binY,
                                                !.ADMinX = minX, !.ADMinY = minY,
                                                !.ADSizeX = sizeX, !.ADSizeY = sizeY],
                                       imageSize, c.sizeXOut, c.sizeYOut),
              rawBuffer |-> newRaw,
              imageBuffer |-> c.data,
              bufferSize |-> a.bufferSize,
              status |-> bytesPerPixelStatus(dataType),
              resetImage |-> resetImage # 0, alloc |-> asked, fault |-> FALSE]

\* ------------------------------------------------------------ file access
NoFile == [exists |-> FALSE]

FileNumbers == 0..MaxFileNumber

\* ADUtils->createFileName builds the name from the file parameters; the
\* name is identified with ADFileNumber.  io is what the file system does
\* to this call: "ok", "noname" (the name cannot be built) or "noopen"
\* (fopen fails).
IoOutcomes == {"ok", "noname", "noopen"}

KnownFormats == {SimFormatBinary, SimFormatASCII}

\* Byte j (0 = least significant) of the 32-bit pattern of v, as fwrite
\* stores it on a little-endian machine.
ByteOf(v, j) ==
    CASE j = 0 -> Lo16(v) % 256
      [] j = 1 -> Lo16(v) \div 256
      [] j = 2 -> Hi16(v) % 256
      [] OTHER -> Hi16(v) \div 256

\* fwrite(&x, sizeof(int), 1, fp)
IntBytes(v) == [j \in 1..4 |-> ByteOf(v, j - 1)]

\* The int fread takes from the four bytes of b that start at index at.
IntAt(b, at) == Join16(b[at + 2] + 256 * b[at + 3], b[at] + 256 * b[at + 1])

\* fwrite(imageBuffer, bytesPerPixel, n, fp): the bytes of the pixels.
PixelBytes(dataType, data) ==
    LET bpp == bytesPerPixel(dataType)
    IN  [k \in 1..(Len(data) * bpp) |->
            ByteOf(data[((k - 1) \div bpp) + 1], (k - 1) % bpp)]

\* The pixel of type dataType that fread stores from the bytes of b that
\* start at index at.
PixelAt(dataType, b, at) ==
    CASE bytesPerPixel(dataType) = 1 -> Wrap(dataType, b[at])
      [] bytesPerPixel(dataType) = 2 -> Wrap(dataType, b[at] + 256 * b[at + 1])
      [] OTHER -> IntAt(b, at)

RECURSIVE Digits(_)
\* The decimal digits of n >= 0, most significant first.
Digits(n) == IF n < 10 THEN <<n>> ELSE Append(Digits(n \div 10), n % 10)

\* fprintf(fp, "%d\n", v) and fprintf(fp, "%u\n", v) for a value of an
\* integer type of at most 32 signed bits: the line written.
Numeral(v) == [neg |-> v < 0, digits |-> Digits(IF v < 0 THEN 0 - v ELSE v)]

RECURSIVE DigitsValue(_)
DigitsValue(d) ==
    IF Len(d) = 0 THEN 0
    ELSE 10 * DigitsValue(SubSeq(d, 1, Len(d) - 1)) + d[Len(d)]

\* Mutant: the sign of the number is dropped.
Scan_Unsigned(t) == DigitsValue(t.digits)

\* fscanf(fp, "%d", &x): the number a line denotes.
Scan(t) == IF t.neg THEN 0 - DigitsValue(t.digits) ELSE DigitsValue(t.digits)

\* The file simWriteFile writes in format: the three header numbers and the
\* pixels, as bytes (binary) or as lines (ASCII), in items.  frame is
\* history: the frame that was written; nothing reads it back.
FileContent(format, sizeX, sizeY, dataType, data) ==
    [exists |-> TRUE, format |-> format,
     items |-> IF format = SimFormatBinary
               THEN IntBytes(sizeX) \o IntBytes(sizeY) \o IntBytes(dataType)
                    \o PixelBytes(dataType, data)
               ELSE <<Numeral(sizeX), Numeral(sizeY), Numeral(dataType)>>
                    \o (IF dataType \in 0..7
                        THEN [k \in 1..Len(data) |-> Numeral(data[k])]
                        ELSE <<>>),
     frame |-> [sizeX |-> sizeX, sizeY |-> sizeY, dataType |-> dataType,
                data |-> data]]

\* simWriteFile: [params, fileSys, status]
\* A file format that is neither binary nor ASCII writes no file; the name
\* and the file number are updated all the same.
simWriteFile(p, img, fs, io) ==
    LET name == p.ADFileNumber
        n == Mul32(p.ADImageSizeX, p.ADImageSizeY)
        known == p.ADFileFormat \in KnownFormats
        data == IF n >= 0 /\ Len(img) >= n THEN SubSeq(img, 1, n) ELSE NoBuffer
        content == FileContent(p.ADFileFormat, p.ADImageSizeX, p.ADImageSizeY,
                               p.ADDataType, data)
        p1 == [p EXCEPT !.ADFullFileName = name]
        p2 == IF p.ADAutoIncrement # 0
              THEN [p1 EXCEPT !.ADFileNumber = Add32(p.ADFileNumber, 1)] ELSE p1
    IN  IF io = "noname"
        THEN [params |-> p, fileSys |-> fs, status |-> AREA_DETECTOR_ERROR]
        ELSE IF known /\ io = "noopen"
        THEN [params |-> p, fileSys |-> fs, status |-> AREA_DETECTOR_ERROR]
        ELSE [params |-> p2,
              fileSys |-> IF known THEN [fs EXCEPT ![name] = content] ELSE fs,
              status |-> AREA_DETECTOR_OK]

\* What simReadFile takes from the open file f read in format: the header
\* [sizeX, sizeY, dataType] and pixel(k), the k-th of the count pixel values
\* the file holds.  A file of the other format does not parse: the header
\* variables keep what the stack held (garbage) and no pixel is read.
FileRead(f, format, garbage) ==
    IF f.format # format \/ Len(f.items) < (IF format = SimFormatBinary THEN 12 ELSE 3)
    THEN [sizeX |-> garbage, sizeY |-> garbage, dataType |-> garbage, count |-> 0,
          pixel |-> <<>>]
    ELSE IF format = SimFormatBinary
    THEN LET dataType == IntAt(f.items, 9)
             bpp == bytesPerPixel(dataType)
             count == IF bpp > 0 THEN (Len(f.items) - 12) \div bpp ELSE 0
         IN  [sizeX |-> IntAt(f.items, 1), sizeY |-> IntAt(f.items, 5),
              dataType |-> dataType, count |-> count,
              pixel |-> [k \in 1..count |->
                            PixelAt(dataType, f.items, 13 + (k - 1) * bpp)]]
    ELSE LET dataType == Scan(f.items[3])
         IN  [sizeX |-> Scan(f.items[1]), sizeY |-> Scan(f.items[2]),
              dataType |-> dataType, count |-> Len(f.items) - 3,
              pixel |-> [k \in 1..(Len(f.items) - 3) |->
                            Wrap(dataType, Scan(f.items[k + 3]))]]

\* The end of simReadFile: the name, the file number and the header values
\* are published.  ADImageSize is left as it is.
ReadPublish(p, sizeX, sizeY, dataType) ==
    LET p1 == [p EXCEPT !.ADFullFileName = p.ADFileNumber]
        p2 == IF p.ADAutoIncrement # 0
              THEN [p1 EXCEPT !.ADFileNumber = Add32(p.ADFileNumber, 1)] ELSE p1
    IN  [p2 EXCEPT !.ADImageSizeX = sizeX, !.ADImageSizeY = sizeY,
                   !.ADDataType = dataType]

\* Mutant: the full file name is published although the read failed.
ReadFailed_Named(p, raw, img, bsz) ==
    [params |-> [p EXCEPT !.ADFullFileName = p.ADFileNumber],
     rawBuffer |-> raw, imageBuffer |-> img, bufferSize |-> bsz,
     status |-> AREA_DETECTOR_ERROR, callback |-> FALSE, read |-> FALSE,
     alloc |-> NoAlloc, fault |-> FALSE]

\* simReadFile when the name cannot be built or the file cannot be opened.
ReadFailed(p, raw, img, bsz) ==
    [params |-> p, rawBuffer |-> raw, imageBuffer |-> img, bufferSize |-> bsz,
     status |-> AREA_DETECTOR_ERROR, callback |-> FALSE, read |-> FALSE,
     alloc |-> NoAlloc, fault |-> FALSE]

\* simReadFile with a file format that is neither binary nor ASCII: no file
\* is opened; imageSizeX, imageSizeY and dataType are never assigned and are
\* published and delivered as they are.
ReadNoFile(p, raw, img, bsz, garbage) ==
    [params |-> ReadPublish(p, garbage, garbage, garbage),
     rawBuffer |-> raw, imageBuffer |-> img, bufferSize |-> bsz,
     status |-> AREA_DETECTOR_OK, callback |-> TRUE, read |-> FALSE,
     alloc |-> NoAlloc, fault |-> FALSE]

\* simReadFile after simAllocateBuffer returned a for the header h: the
\* pixels are stored in the processed buffer, of which n pixels are
\* allocated.
ReadStore(p, fill, h, a, n) ==
    LET stored == IF h.count < n THEN h.count ELSE n
        asked == [made |-> TRUE, sizeX |-> h.sizeX, sizeY |-> h.sizeY,
                  dataType |-> h.dataType, result |-> a]
    IN  IF a.rawBuffer = NoBuffer /\ a.bufferSize # 0 /\ stored > 0
        THEN [params |-> p, rawBuffer |-> a.rawBuffer, imageBuffer |-> a.imageBuffer,
              bufferSize |-> a.bufferSize, status |-> AREA_DETECTOR_OK,
              callback |-> FALSE, read |-> TRUE, alloc |-> asked, fault |-> TRUE]
        ELSE [params |-> ReadPublish(p, h.sizeX, h.sizeY, h.dataType),
              rawBuffer |-> a.rawBuffer,
              \* bytes kept from a different layout read as arbitrary pixel values
              imageBuffer |-> [k \in 1..n |->
                                 IF k <= stored THEN h.pixel[k]
                                 ELSE IF Len(a.imageBuffer) = n THEN a.imageBuffer[k]
                                 ELSE Garbage(fill)],
              bufferSize |-> a.bufferSize, status |-> AREA_DETECTOR_OK,
              callback |-> TRUE, read |-> TRUE, alloc |-> asked, fault |-> FALSE]

\* simReadFile after the header h was read: the buffers are sized for it.
ReadAllocate(p, raw, img, bsz, fill, h) ==
    ReadStore(p, fill, h,
              simAllocateBuffer(raw, img, bsz, h.sizeX, h.sizeY, h.dataType, fill),
              IF h.sizeX > 0 /\ h.sizeY > 0 /\ bytesPerPixel(h.dataType) > 0
              THEN h.sizeX * h.sizeY ELSE 0)

\* simReadFile: [params, rawBuffer, imageBuffer, bufferSize, status, callback,
\* read, alloc, fault].  callback is TRUE when the image-data callback is
\* called, read when a file was opened and read; alloc is the call of
\* simAllocateBuffer, fault is TRUE when pixels are stored through a null
\* buffer pointer.
simReadFile(p, raw, img, bsz, fs, io, fill) ==
    IF io = "noname" THEN ReadFailed(p, raw, img, bsz)
    ELSE IF p.ADFileFormat \notin KnownFormats
    THEN ReadNoFile(p, raw, img, bsz, Garbage(fill))
    ELSE IF io = "noopen" \/ ~fs[p.ADFileNumber].exists
    THEN ReadFailed(p, raw, img, bsz)
    ELSE ReadAllocate(p, raw, img, bsz, fill,
                      FileRead(fs[p.ADFileNumber], p.ADFileFormat, Garbage(fill)))

\* ------------------------------------------------------------ history
GeometryKeys == {"ADBinX", "ADBinY", "ADMinX", "ADMinY", "ADSizeX", "ADSizeY",
                 "ADMaxSizeX", "ADMaxSizeY"}

\* The parameters the synthesis and the extraction read.
SynthesisKeys == GeometryKeys \cup {"ADDataType", "ADAcquireTime", "ADGain",
                                    "SimGainX", "SimGainY"}

Changed(p, q) == \E k \in SynthesisKeys : p[k] # q[k]

\* The parameters simComputeImage corrects or publishes.
ComputedKeys == GeometryKeys \cup {"ADDataType", "ADImageSizeX", "ADImageSizeY",
                                   "ADImageSize"}

Written(p, q) == \E k \in ComputedKeys : p[k] # q[k]

Synthesised(d) == [reset |-> d.resetImage, dirty |-> dirty]

\* What a call c of simAllocateBuffer did to the buffers raw, img of
\* recorded size bsz: "kept" when the size asked for is the recorded one and
\* nothing changed, "renewed" when it differs and both buffers were
\* allocated anew and the size asked for is recorded, "broken" otherwise.
AllocOutcome(raw, img, bsz, c) ==
    LET required == Mul32(Mul32(c.sizeX, c.sizeY), bytesPerPixel(c.dataType))
    IN  IF required = bsz
        THEN IF /\ ~c.result.realloc /\ c.result.bufferSize = bsz
                /\ c.result.rawBuffer = raw /\ c.result.imageBuffer = img
             THEN "kept" ELSE "broken"
        ELSE IF c.result.realloc /\ c.result.bufferSize = required
             THEN "renewed" ELSE "broken"

\* An entry point that made no file operation and no image transfer, and
\* no step of which failed.
NoOp ==
    [kind |-> "none", io |-> "ok", failed |-> FALSE, maxBytes |-> 0, bytes |-> 0, camera |-> 0]

\* ------------------------------------------------------------------- init
\* The state when simDetectorConfig(camera, maxSizeX, maxSizeY, dataType) has
\* created the simTask thread and has not yet computed the first image.
InitWith(configArgs, builds) ==
    /\ \E c \in configArgs :
          params = ConfigParams(c[1], c[2], c[3])
    /\ build \in builds
    /\ numCameras = 1
    /\ notified = NeverNotified
    /\ allCameras = <<[mutexes |-> 1, events |-> 1, libraries |-> 1, tasks |-> 1]>>
    /\ cfgPc = "created"
    /\ framesRemaining = 0
    /\ mutexOwner = NOBODY
    /\ eventFull = FALSE
    /\ rawBuffer = NoBuffer
    /\ imageBuffer = NoBuffer
    /\ bufferSize = 0
    /\ callbackSet = FALSE
    /\ fileSys = [n \in FileNumbers |-> NoFile]
    /\ taskPc = "top"
    /\ acquiring = ADStatusIdle
    /\ delayBase = 0
    /\ callerPc = "out"
    /\ call = "none"
    /\ lastStatus = AREA_DETECTOR_OK
    /\ crashed = FALSE
    /\ delivered = 0
    /\ startMode = -1
    /\ startN = 0
    /\ dirty = TRUE
    /\ settled = FALSE
    /\ synth = [reset |-> FALSE, dirty |-> FALSE]
    /\ alloc = "none"
    /\ op = NoOp

\* ------------------------------------------- simDetectorSetup, simDetectorConfig
\* The detailed variables (cfgPc, params, the buffers, the mutex, the event,
\* taskPc ...) are those of allCameras[0], and taskPc is the position of the
\* first simTask thread created for it.  cfgPc is "unconfigured" before
\* simDetectorConfig has touched the instance and "failed" when its last
\* simDetectorConfig returned an error after touching it.

\* One element of the array calloc returns: all zero.
ZeroCamera == [mutexes |-> 0, events |-> 0, libraries |-> 0, tasks |-> 0]

\* pCamera->params before ADParam->create has made a library: NULL.
NoParams == [created |-> FALSE]

\* The state in which the shell has called neither setup function.
InitSetup ==
    /\ numCameras = 0
    /\ allCameras = <<>>
    /\ notified = NeverNotified
    /\ cfgPc = "unconfigured"
    /\ params = NoParams
    /\ build = [fp |-> "wrap", ovf |-> "wrap"]
    /\ framesRemaining = 0
    /\ mutexOwner = NOBODY
    /\ eventFull = FALSE
    /\ rawBuffer = NoBuffer
    /\ imageBuffer = NoBuffer
    /\ bufferSize = 0
    /\ callbackSet = FALSE
    /\ fileSys = [n \in FileNumbers |-> NoFile]
    /\ taskPc = "unborn"
    /\ acquiring = ADStatusIdle
    /\ delayBase = 0
    /\ callerPc = "out"
    /\ call = "none"
    /\ lastStatus = AREA_DETECTOR_OK
    /\ crashed = FALSE
    /\ delivered = 0
    /\ startMode = -1
    /\ startN = 0
    /\ dirty = TRUE
    /\ settled = FALSE
    /\ synth = [reset |-> FALSE, dirty |-> FALSE]
    /\ alloc = "none"
    /\ op = NoOp

\* No simDetectorConfig is running: the shell runs one command at a time.
ShellFree == cfgPc \in {"unconfigured", "returned", "failed"}

\* simDetectorSetup(num_cameras).  callocOk is whether calloc gave memory.
\* The array it allocates replaces the one before, whose instances and
\* threads are left behind.
simDetectorSetup(num_cameras, callocOk) ==
    /\ ~crashed
    /\ ShellFree
    /\ callerPc = "out"
    /\ IF num_cameras < 1
       THEN /\ lastStatus' = AREA_DETECTOR_ERROR
            /\ UNCHANGED <<numCameras, allCameras, cfgPc, device, mutexOwner,
                           eventFull, callbackSet, taskPc>>
       ELSE /\ lastStatus' = AREA_DETECTOR_OK
            /\ numCameras' = num_cameras
            /\ allCameras' = IF callocOk THEN [i \in 1..num_cameras |-> ZeroCamera]
                             ELSE <<>>
            /\ cfgPc' = "unconfigured"
            /\ params' = NoParams
            /\ framesRemaining' = 0
            /\ rawBuffer' = NoBuffer
            /\ imageBuffer' = NoBuffer
            /\ bufferSize' = 0
            /\ mutexOwner' = NOBODY
            /\ eventFull' = FALSE
            /\ callbackSet' = FALSE
            /\ taskPc' = "unborn"
    /\ op' = [NoOp EXCEPT !.kind = "setup", !.failed = num_cameras < 1]
    /\ UNCHANGED <<fileSys, build, notified, acquiring, delayBase, callerPc, call,
                   crashed, delivered, startMode, startN, dirty, settled, synth,
                   alloc>>

\* Mutant: the camera number may be one past the last instance.
CameraInRange_UpTo(camera) == numCameras >= 1 /\ camera >= 0 /\ camera <= numCameras

\* The two tests at the head of simDetectorConfig.
CameraInRange(camera) == numCameras >= 1 /\ camera >= 0 /\ camera < numCameras

\* How far simDetectorConfig gets: the number of the creations (mutex,
\* event, parameter library, thread) that succeed before it returns.
ConfigOutcomes == {"ok", "nomutex", "noevent", "noparams", "noset", "nothread"}

ConfigStage(outcome) ==
    CASE outcome = "nomutex" -> 0
      [] outcome = "noevent" -> 1
      [] outcome = "noparams" -> 2
      [] outcome \in {"noset", "nothread"} -> 3
      [] OTHER -> 4

\* What simDetectorConfig creates for an instance c of the array.
Configured(c, stage) ==
    [mutexes |-> IF stage >= 1 THEN c.mutexes + 1 ELSE c.mutexes,
     events |-> IF stage >= 2 THEN c.events + 1 ELSE c.events,
     libraries |-> IF stage >= 3 THEN c.libraries + 1 ELSE c.libraries,
     tasks |-> IF stage >= 4 THEN c.tasks + 1 ELSE c.tasks]

\* simDetectorConfig(camera, maxSizeX, maxSizeY, dataType) from its head to
\* the creation of the simTask thread.  For an instance other than
\* allCameras[0] the action is the whole call.
simDetectorConfig_Create(camera, maxSizeX, maxSizeY, dataType, outcome) ==
    /\ ~crashed
    /\ ShellFree
    /\ callerPc = "out"
    /\ \A i \in DOMAIN allCameras : allCameras[i].mutexes < MaxConfigs
    /\ op' = [NoOp EXCEPT !.kind = "config", !.camera = camera,
                          !.failed = ~CameraInRange(camera) \/ outcome # "ok"]
    /\ IF ~CameraInRange(camera)
       THEN \* "camera must in range": nothing is touched
            /\ lastStatus' = AREA_DETECTOR_ERROR
            /\ UNCHANGED <<numCameras, allCameras, cfgPc, device, mutexOwner,
                           eventFull, taskPc, crashed>>
       ELSE IF camera + 1 \notin DOMAIN allCameras
       THEN \* pCamera->camera = camera writes outside the array
            /\ crashed' = TRUE
            /\ UNCHANGED <<numCameras, allCameras, cfgPc, device, mutexOwner,
                           eventFull, taskPc, lastStatus>>
       ELSE LET stage == ConfigStage(outcome)
            IN  /\ allCameras' = [allCameras EXCEPT
                                     ![camera + 1] = Configured(allCameras[camera + 1], stage)]
                /\ lastStatus' = IF outcome = "ok" THEN lastStatus ELSE AREA_DETECTOR_ERROR
                /\ IF camera = 0
                   THEN /\ cfgPc' = IF outcome = "ok" THEN "created" ELSE "failed"
                        /\ mutexOwner' = NOBODY
                        /\ eventFull' = IF stage >= 1 THEN FALSE ELSE eventFull
                        /\ params' = IF stage >= 3
                                      THEN ConfigParams(maxSizeX, maxSizeY, dataType)
                                      ELSE IF stage = 2 THEN NoParams ELSE params
                        /\ taskPc' = IF stage >= 4 /\ taskPc = "unborn" THEN "top"
                                      ELSE taskPc
                   ELSE UNCHANGED <<cfgPc, mutexOwner, eventFull, params, taskPc>>
                /\ UNCHANGED <<numCameras, framesRemaining, rawBuffer, imageBuffer,
                               bufferSize, crashed>>
    /\ UNCHANGED <<callbackSet, fileSys, build, notified, acquiring, delayBase,
                   callerPc, call, delivered, startMode, startN, dirty, settled, synth,
                   alloc>>

\* "Compute the first image": simDetectorConfig enters simComputeImage ...
simDetectorConfig_Compute ==
    /\ ~crashed
    /\ cfgPc = "created"
    /\ cfgPc' = "computing"
    /\ UNCHANGED <<device, mutexOwner, eventFull, callbackSet, fileSys, fixed,
                   notified, taskPc, acquiring, delayBase, callerPc, call, lastStatus,
                   crashed, history>>

\* ... and returns from it.
simDetectorConfig_Return(fill) ==
    /\ ~crashed
    /\ cfgPc = "computing"
    /\ LET d == simComputeImage(params, rawBuffer, imageBuffer, bufferSize, fill, build)
       IN  /\ params' = d.params
           /\ rawBuffer' = d.rawBuffer
           /\ imageBuffer' = d.imageBuffer
           /\ bufferSize' = d.bufferSize
           /\ synth' = Synthesised(d)
           /\ alloc' = AllocOutcome(rawBuffer, imageBuffer, bufferSize, d.alloc)
           /\ crashed' = d.fault
    /\ dirty' = FALSE
    /\ settled' = TRUE
    /\ cfgPc' = "returned"
    /\ UNCHANGED <<framesRemaining, mutexOwner, eventFull, callbackSet, fileSys, fixed,
                   notified, taskPc, acquiring, delayBase, callerPc, call, lastStatus,
                   delivered, startMode, startN, op>>

\* ----------------------------------------------------------------- simTask
\* epicsMutexLock at the top of the loop.
simTask_Lock ==
    /\ ~crashed
    /\ taskPc = "top"
    /\ mutexOwner = NOBODY
    /\ mutexOwner' = TASK
    /\ taskPc' = "check"
    /\ UNCHANGED <<cfgPc, device, eventFull, callbackSet, fileSys, fixed, notified,
                   acquiring, delayBase, callerPc, call, lastStatus, crashed, history>>

\* Mutant: the task goes on to compute whatever ADAcquire reads.
simTask_Check_Always ==
    /\ ~crashed
    /\ taskPc = "check"
    /\ taskPc' = "compute"
    /\ UNCHANGED <<cfgPc, device, mutexOwner, eventFull, callbackSet, fileSys, fixed,
                   notified, acquiring, delayBase, callerPc, call, lastStatus, crashed,
                   history>>

\* "Is acquisition active?"  If not: set the status to idle, call the
\* callbacks and release the mutex before waiting for the event.
simTask_Check ==
    /\ ~crashed
    /\ taskPc = "check"
    /\ IF params.ADAcquire = 0
       THEN /\ params' = SetParam(params, "ADStatus", ADStatusIdle)
            /\ notified' = callCallbacks(params')
            /\ mutexOwner' = NOBODY
            /\ taskPc' = "idleWait"
       ELSE /\ UNCHANGED <<params, notified, mutexOwner>>
            /\ taskPc' = "compute"
    /\ UNCHANGED <<cfgPc, framesRemaining, rawBuffer, imageBuffer, bufferSize,
                   eventFull, callbackSet, fileSys, fixed, acquiring, delayBase,
                   callerPc, call, lastStatus, crashed, delivered, startMode,
                   startN, dirty, settled, synth, alloc, op>>

\* epicsEventWait returns: the event was signalled, and is consumed.
simTask_EventWait ==
    /\ ~crashed
    /\ taskPc = "idleWait"
    /\ eventFull
    /\ eventFull' = FALSE
    /\ taskPc' = "relock"
    /\ UNCHANGED <<cfgPc, device, mutexOwner, callbackSet, fileSys, fixed, notified,
                   acquiring, delayBase, callerPc, call, lastStatus, crashed, history>>

\* Mutant: the task goes on after the wait without taking the mutex back.
simTask_Relock_NoWait ==
    /\ ~crashed
    /\ taskPc = "relock"
    /\ taskPc' = "compute"
    /\ UNCHANGED <<cfgPc, device, mutexOwner, eventFull, callbackSet, fileSys, fixed,
                   notified, acquiring, delayBase, callerPc, call, lastStatus, crashed,
                   history>>

\* epicsMutexLock after the wait.
simTask_Relock ==
    /\ ~crashed
    /\ taskPc = "relock"
    /\ mutexOwner = NOBODY
    /\ mutexOwner' = TASK
    /\ taskPc' = "compute"
    /\ UNCHANGED <<cfgPc, device, eventFull, callbackSet, fileSys, fixed, notified,
                   acquiring, delayBase, callerPc, call, lastStatus, crashed, history>>

\* "We are acquiring": set the status and update the image.
simTask_Compute(fill) ==
    /\ ~crashed
    /\ taskPc = "compute"
    /\ delivered < MaxFrames
    /\ LET p == SetParam(params, "ADStatus", ADStatusAcquire)
           d == simComputeImage(p, rawBuffer, imageBuffer, bufferSize, fill, build)
       IN  /\ params' = d.params
           /\ rawBuffer' = d.rawBuffer
           /\ imageBuffer' = d.imageBuffer
           /\ bufferSize' = d.bufferSize
           /\ synth' = Synthesised(d)
           /\ alloc' = AllocOutcome(rawBuffer, imageBuffer, bufferSize, d.alloc)
           /\ crashed' = d.fault
    /\ dirty' = FALSE
    /\ settled' = TRUE
    /\ acquiring' = ADStatusAcquire
    /\ taskPc' = "deliver"
    /\ UNCHANGED <<cfgPc, framesRemaining, mutexOwner, eventFull, callbackSet, fileSys,
                   fixed, notified, delayBase, callerPc, call, lastStatus, delivered,
                   startMode, startN, op>>

\* "Call the imageData callback" through pCamera->pImageDataCallback.
simTask_Deliver ==
    /\ ~crashed
    /\ taskPc = "deliver"
    /\ IF callbackSet
       THEN /\ delivered' = delivered + 1
            /\ UNCHANGED crashed
       ELSE /\ crashed' = TRUE
            /\ UNCHANGED delivered
    /\ taskPc' = "count"
    /\ UNCHANGED <<cfgPc, device, mutexOwner, eventFull, callbackSet, fileSys, fixed,
                   notified, acquiring, delayBase, callerPc, call, lastStatus,
                   startMode, startN, dirty, settled, synth, alloc, op>>

\* Mutant: framesRemaining is counted down whenever it is not 0.
simTask_Count_Nonzero ==
    /\ ~crashed
    /\ taskPc = "count"
    /\ LET fr == IF framesRemaining # 0 THEN framesRemaining - 1 ELSE framesRemaining
       IN  /\ framesRemaining' = fr
           /\ acquiring' = IF fr = 0 THEN ADStatusIdle ELSE acquiring
           /\ params' = IF fr = 0 THEN SetParam(params, "ADAcquire", ADStatusIdle)
                                  ELSE params
    /\ taskPc' = "save"
    /\ UNCHANGED <<cfgPc, rawBuffer, imageBuffer, bufferSize, mutexOwner, eventFull,
                   callbackSet, fileSys, fixed, notified, delayBase, callerPc, call,
                   lastStatus, crashed, history>>

\* "See if acquisition is done".
simTask_Count ==
    /\ ~crashed
    /\ taskPc = "count"
    /\ LET fr == IF framesRemaining > 0 THEN framesRemaining - 1 ELSE framesRemaining
       IN  /\ framesRemaining' = fr
           /\ acquiring' = IF fr = 0 THEN ADStatusIdle ELSE acquiring
           /\ params' = IF fr = 0 THEN SetParam(params, "ADAcquire", ADStatusIdle)
                                  ELSE params
    /\ taskPc' = "save"
    /\ UNCHANGED <<cfgPc, rawBuffer, imageBuffer, bufferSize, mutexOwner, eventFull,
                   callbackSet, fileSys, fixed, notified, delayBase, callerPc, call,
                   lastStatus, crashed, history>>

\* Mutant: the mutex is released after the save, before the callbacks.
simTask_AutoSave_Unlocks(io) ==
    /\ ~crashed
    /\ taskPc = "save"
    /\ LET w == IF params.ADAutoSave # 0
                THEN simWriteFile(params, imageBuffer, fileSys, io)
                ELSE [params |-> params, fileSys |-> fileSys, status |-> AREA_DETECTOR_OK]
       IN  /\ params' = w.params
           /\ fileSys' = w.fileSys
    /\ mutexOwner' = NOBODY
    /\ taskPc' = "flush"
    /\ UNCHANGED <<cfgPc, framesRemaining, rawBuffer, imageBuffer, bufferSize, eventFull,
                   callbackSet, fixed, notified, acquiring, delayBase, callerPc, call,
                   lastStatus, crashed, history>>

\* "If autosave is enabled then save the file".
simTask_AutoSave(io) ==
    /\ ~crashed
    /\ taskPc = "save"
    /\ LET w == IF params.ADAutoSave # 0
                THEN simWriteFile(params, imageBuffer, fileSys, io)
                ELSE [params |-> params, fileSys |-> fileSys, status |-> AREA_DETECTOR_OK]
       IN  /\ params' = w.params
           /\ fileSys' = w.fileSys
    /\ taskPc' = "flush"
    /\ UNCHANGED <<cfgPc, framesRemaining, rawBuffer, imageBuffer, bufferSize,
                   mutexOwner, eventFull, callbackSet, fixed, notified, acquiring,
                   delayBase, callerPc, call, lastStatus, crashed, history>>

\* "Call the callbacks to update any changes", then read the times.
simTask_Flush ==
    /\ ~crashed
    /\ taskPc = "flush"
    /\ delayBase' = IF params.ADAcquirePeriod > params.ADAcquireTime
                    THEN params.ADAcquirePeriod ELSE params.ADAcquireTime
    /\ notified' = callCallbacks(params)
    /\ taskPc' = "unlock"
    /\ UNCHANGED <<cfgPc, device, mutexOwner, eventFull, callbackSet, fileSys, fixed,
                   acquiring, callerPc, call, lastStatus, crashed, history>>

\* Mutant: the mutex is kept across the pacing wait.
simTask_Unlock_Kept ==
    /\ ~crashed
    /\ taskPc = "unlock"
    /\ taskPc' = IF acquiring # 0 THEN "pace" ELSE "top"
    /\ UNCHANGED <<cfgPc, device, mutexOwner, eventFull, callbackSet, fileSys, fixed,
                   notified, acquiring, delayBase, callerPc, call, lastStatus, crashed,
                   history>>

\* "We are done accessing data structures, release the lock".
simTask_Unlock ==
    /\ ~crashed
    /\ taskPc = "unlock"
    /\ mutexOwner' = NOBODY
    /\ taskPc' = IF acquiring # 0 THEN "pace" ELSE "top"
    /\ UNCHANGED <<cfgPc, device, eventFull, callbackSet, fileSys, fixed, notified,
                   acquiring, delayBase, callerPc, call, lastStatus, crashed, history>>

\* Mutant: the pacing wait is taken whatever the delay comes to.
simTask_Pace_Always(positive) ==
    /\ ~crashed
    /\ taskPc = "pace"
    /\ taskPc' = IF positive THEN "paceWait" ELSE "top"
    /\ UNCHANGED <<cfgPc, device, mutexOwner, eventFull, callbackSet, fileSys, fixed,
                   notified, acquiring, delayBase, callerPc, call, lastStatus, crashed,
                   history>>

\* delay = max(acquireTime, acquirePeriod) - computeTime; wait if delay > 0.
\* computeTime >= 0 is whatever the clock measured: positive is whether
\* the difference came out above zero.
simTask_Pace(positive) ==
    /\ ~crashed
    /\ taskPc = "pace"
    /\ positive => delayBase > 0
    /\ taskPc' = IF positive THEN "paceWait" ELSE "top"
    /\ UNCHANGED <<cfgPc, device, mutexOwner, eventFull, callbackSet, fileSys, fixed,
                   notified, acquiring, delayBase, callerPc, call, lastStatus, crashed,
                   history>>

\* epicsEventWaitWithTimeout returns: by the event, which it consumes, or
\* by the timeout, with the event still empty.
simTask_PaceWait ==
    /\ ~crashed
    /\ taskPc = "paceWait"
    /\ eventFull' = FALSE
    /\ taskPc' = "top"
    /\ UNCHANGED <<cfgPc, device, mutexOwner, callbackSet, fileSys, fixed, notified,
                   acquiring, delayBase, callerPc, call, lastStatus, crashed, history>>

\* ----------------------------------------------------- driver entry points
\* The caller enters an entry point and takes the mutex (epicsMutexLock at
\* its head).  Entry points are called once simDetectorConfig has returned.
Caller_Enter(entry) ==
    /\ ~crashed
    /\ cfgPc = "returned"
    /\ callerPc = "out"
    /\ mutexOwner = NOBODY
    /\ mutexOwner' = CALLER
    /\ callerPc' = "in"
    /\ call' = entry
    /\ UNCHANGED <<cfgPc, device, eventFull, callbackSet, fileSys, fixed, notified,
                   taskPc, acquiring, delayBase, lastStatus, crashed, history>>

\* Mutant: a frame mode outside the three clears framesRemaining.
FramesFor_Clears(frameMode, numFrames, old) ==
    CASE frameMode = ADFrameSingle -> 1
      [] frameMode = ADFrameMultiple -> numFrames
      [] frameMode = ADFrameContinuous -> -1
      [] OTHER -> 0

\* framesRemaining for a frame mode; any other mode leaves it as it is.
FramesFor(frameMode, numFrames, old) ==
    CASE frameMode = ADFrameSingle -> 1
      [] frameMode = ADFrameMultiple -> numFrames
      [] frameMode = ADFrameContinuous -> -1
      [] OTHER -> old

ResetKeys == {"ADBinX", "ADBinY", "ADMinX", "ADMinY", "ADSizeX", "ADSizeY", "ADDataType"}

\* The state after case ADWriteFile of ADSetInteger, w being what
\* simWriteFile returned.
AfterWrite(w, raw, img, bsz) ==
    [params |-> w.params, rawBuffer |-> raw, imageBuffer |-> img, bufferSize |-> bsz,
     fileSys |-> w.fileSys, status |-> w.status, callback |-> FALSE,
     alloc |-> NoAlloc, fault |-> FALSE]

\* The state after case ADReadFile of ADSetInteger, r being what simReadFile
\* returned.
AfterRead(r, fs) ==
    [params |-> r.params, rawBuffer |-> r.rawBuffer, imageBuffer |-> r.imageBuffer,
     bufferSize |-> r.bufferSize, fileSys |-> fs, status |-> r.status,
     callback |-> r.callback, alloc |-> r.alloc, fault |-> r.fault]

\* Mutant: the image-data callback is called after every other case.
AfterOther_Delivers(p1, raw, img, bsz, fs) ==
    [params |-> p1, rawBuffer |-> raw, imageBuffer |-> img, bufferSize |-> bsz,
     fileSys |-> fs, status |-> AREA_DETECTOR_OK, callback |-> TRUE,
     alloc |-> NoAlloc, fault |-> FALSE]

\* The state after any other case of the switch on function.
AfterOther(p1, raw, img, bsz, fs) ==
    [params |-> p1, rawBuffer |-> raw, imageBuffer |-> img, bufferSize |-> bsz,
     fileSys |-> fs, status |-> AREA_DETECTOR_OK, callback |-> FALSE,
     alloc |-> NoAlloc, fault |-> FALSE]

\* What the file system did to the file operation of ADSetInteger: "ok",
\* "noname", "noopen", or "nofile" when the format opens no file.
FileIo(function, p1, fs, io) ==
    CASE function \notin {"ADWriteFile", "ADReadFile"} -> "ok"
      [] io = "noname" -> "noname"
      [] p1.ADFileFormat \notin KnownFormats -> "nofile"
      [] io = "noopen" -> "noopen"
      [] function = "ADReadFile" /\ ~fs[p1.ADFileNumber].exists -> "noopen"
      [] OTHER -> "ok"

\* The end of ADSetInteger: p1 is the library after the parameter was set,
\* s1 the state after the switch on function, p2 the library after
\* SimResetImage was set (when reset), d what simComputeImage returns for it.
ADSetInteger_End(function, value, io, p1, s1, p2, d) ==
    LET start == function = "ADAcquire" /\ value # 0
        compute == /\ function # "ADAcquire"
                   /\ \/ function \in ResetKeys
                      \/ (function = "SimResetImage" /\ value # 0)
    IN  /\ params' = IF compute THEN d.params ELSE p2
        /\ rawBuffer' = IF compute THEN d.rawBuffer ELSE s1.rawBuffer
        /\ imageBuffer' = IF compute THEN d.imageBuffer ELSE s1.imageBuffer
        /\ bufferSize' = IF compute THEN d.bufferSize ELSE s1.bufferSize
        /\ fileSys' = s1.fileSys
        /\ framesRemaining' =
             IF start THEN FramesFor(p1.ADFrameMode, p1.ADNumFrames, framesRemaining)
             ELSE IF function = "ADFrameMode"
                  THEN FramesFor(value, p1.ADNumFrames, framesRemaining)
                  ELSE framesRemaining
        /\ eventFull' = IF start THEN TRUE ELSE eventFull
        /\ lastStatus' = s1.status
        /\ crashed' = \/ s1.callback /\ ~callbackSet
                      \/ s1.fault
                      \/ compute /\ d.fault
        \* history
        /\ synth' = IF compute
                    THEN [reset |-> d.resetImage,
                          dirty |-> dirty \/ Changed(params, s1.params)]
                    ELSE synth
        /\ dirty' = IF compute THEN FALSE ELSE dirty \/ Changed(params, s1.params)
        /\ settled' = IF compute THEN TRUE ELSE settled /\ ~Written(params, s1.params)
        /\ delivered' = IF start THEN 0
                        ELSE IF s1.callback /\ callbackSet THEN delivered + 1
                        ELSE delivered
        /\ startMode' = IF start THEN p1.ADFrameMode
                        ELSE IF function \in {"ADAcquire", "ADFrameMode"} THEN -1
                        ELSE startMode
        /\ startN' = IF start
                     THEN (IF p1.ADFrameMode = ADFrameMultiple THEN p1.ADNumFrames ELSE 0)
                     ELSE IF function \in {"ADAcquire", "ADFrameMode"} THEN 0
                     ELSE startN
        /\ alloc' = IF compute
                    THEN AllocOutcome(s1.rawBuffer, s1.imageBuffer, s1.bufferSize,
                                      d.alloc)
                    ELSE IF s1.alloc.made
                    THEN AllocOutcome(rawBuffer, imageBuffer, bufferSize, s1.alloc)
                    ELSE alloc
        /\ op' = [NoOp EXCEPT
                    !.kind = CASE function = "ADWriteFile" -> "write"
                               [] function = "ADReadFile" -> "read"
                               [] OTHER -> "none",
                    !.io = FileIo(function, p1, fileSys, io),
                    !.failed = \/ s1.status # AREA_DETECTOR_OK
                               \/ compute /\ d.status # AREA_DETECTOR_OK]

\* "if (reset)" of ADSetInteger: the image is computed for p2.
ADSetInteger_Compute(function, value, io, fill, p1, s1, p2) ==
    ADSetInteger_End(function, value, io, p1, s1, p2,
                     simComputeImage(p2, s1.rawBuffer, s1.imageBuffer, s1.bufferSize,
                                     fill, build))

\* "if (reset)" of ADSetInteger: SimResetImage is set.
ADSetInteger_Reset(function, value, io, fill, p1, s1) ==
    ADSetInteger_Compute(function, value, io, fill, p1, s1,
                         IF \/ function = "ADAcquire" /\ value # 0
                            \/ function \in ResetKeys
                            \/ (function = "SimResetImage" /\ value # 0)
                         THEN SetParam(s1.params, "SimResetImage", 1) ELSE s1.params)

\* The switch on function of ADSetInteger, p1 being the library after the
\* parameter was set.
ADSetInteger_Switch(function, value, io, fill, p1) ==
    ADSetInteger_Reset(function, value, io, fill, p1,
        CASE function = "ADWriteFile" ->
               AfterWrite(simWriteFile(p1, imageBuffer, fileSys, io),
                          rawBuffer, imageBuffer, bufferSize)
          [] function = "ADReadFile" ->
               AfterRead(simReadFile(p1, rawBuffer, imageBuffer, bufferSize, fileSys,
                                     io, fill),
                         fileSys)
          [] OTHER -> AfterOther(p1, rawBuffer, imageBuffer, bufferSize, fileSys))

\* ADSetInteger(pCamera, function, value), from after epicsMutexLock to the
\* return.
ADSetInteger(function, value, io, fill) ==
    /\ ~crashed
    /\ callerPc = "in"
    /\ call = "ADSetInteger"
    /\ function = "ADReadFile" => delivered < MaxFrames
    /\ function \in {"ADWriteFile", "ADReadFile"} => params.ADFileNumber \in FileNumbers
    /\ ADSetInteger_Switch(function, value, io, fill, SetParam(params, function, value))
    /\ mutexOwner' = NOBODY
    /\ callerPc' = "out"
    /\ call' = "none"
    /\ notified' = callCallbacks(params')
    /\ UNCHANGED <<cfgPc, callbackSet, fixed, taskPc, acquiring, delayBase>>

RecomputeKeys == {"ADAcquireTime", "ADGain", "SimGainX", "SimGainY"}

\* ADSetDouble(pCamera, function, value), from after epicsMutexLock to the
\* return.
ADSetDouble(function, value, fill) ==
    /\ ~crashed
    /\ callerPc = "in"
    /\ call = "ADSetDouble"
    /\ LET p1 == SetParam(params, function, value)
           compute == function \in RecomputeKeys
           p2 == IF compute THEN SetParam(p1, "SimResetImage", 1) ELSE p1
           d  == simComputeImage(p2, rawBuffer, imageBuffer, bufferSize, fill, build)
           nowDirty == dirty \/ Changed(params, p1)
       IN  /\ params' = IF compute THEN d.params ELSE p2
           /\ rawBuffer' = IF compute THEN d.rawBuffer ELSE rawBuffer
           /\ imageBuffer' = IF compute THEN d.imageBuffer ELSE imageBuffer
           /\ bufferSize' = IF compute THEN d.bufferSize ELSE bufferSize
           /\ synth' = IF compute THEN [reset |-> d.resetImage, dirty |-> nowDirty]
                       ELSE synth
           /\ dirty' = IF compute THEN FALSE ELSE nowDirty
           /\ settled' = IF compute THEN TRUE ELSE settled /\ ~Written(params, p1)
           /\ alloc' = IF compute
                       THEN AllocOutcome(rawBuffer, imageBuffer, bufferSize, d.alloc)
                       ELSE alloc
           /\ crashed' = (compute /\ d.fault)
           /\ op' = [NoOp EXCEPT !.failed = compute /\ d.status # AREA_DETECTOR_OK]
    /\ lastStatus' = AREA_DETECTOR_OK
    /\ mutexOwner' = NOBODY
    /\ callerPc' = "out"
    /\ call' = "none"
    /\ notified' = callCallbacks(params')
    /\ UNCHANGED <<cfgPc, framesRemaining, eventFull, callbackSet, fileSys, fixed,
                   taskPc, acquiring, delayBase, delivered, startMode, startN>>

\* ADSetImageDataCallback(pCamera, callback, param) with a callback.
ADSetImageDataCallback ==
    /\ ~crashed
    /\ callerPc = "in"
    /\ call = "ADSetImageDataCallback"
    /\ callbackSet' = TRUE
    /\ lastStatus' = AREA_DETECTOR_OK
    /\ mutexOwner' = NOBODY
    /\ callerPc' = "out"
    /\ call' = "none"
    /\ op' = NoOp
    /\ UNCHANGED <<cfgPc, device, eventFull, fileSys, fixed, notified, taskPc,
                   acquiring, delayBase, crashed, delivered, startMode, startN, dirty,
                   settled, synth, alloc>>

\* ADGetImage(pCamera, maxBytes, buffer), from after epicsMutexLock to the
\* return.  The int imageSize is converted to the size_t length of memcpy:
\* a negative one becomes a length above INT_MAX, held here as INT_MAX, and
\* the copy leaves the address space.  A length above the bytes allocated
\* to the processed buffer reads past its end, which is undefined: overrun
\* is whether the process ends there.
ADGetImage(maxBytes, overrun) ==
    /\ ~crashed
    /\ callerPc = "in"
    /\ call = "ADGetImage"
    /\ LET imageSize == IF params.ADImageSize > maxBytes THEN maxBytes
                        ELSE params.ADImageSize
           length == IF imageSize < 0 THEN INT_MAX ELSE imageSize
           allocated == IF imageBuffer = NoBuffer /\ rawBuffer = NoBuffer THEN 0
                        ELSE bufferSize
       IN  /\ op' = [NoOp EXCEPT !.kind = "getImage", !.maxBytes = maxBytes,
                                  !.bytes = length]
           /\ crashed' = \/ imageSize < 0
                         \/ length > allocated /\ overrun
    /\ lastStatus' = AREA_DETECTOR_OK
    /\ mutexOwner' = NOBODY
    /\ callerPc' = "out"
    /\ call' = "none"
    /\ UNCHANGED <<cfgPc, device, eventFull, callbackSet, fileSys, fixed, notified,
                   taskPc, acquiring, delayBase, delivered, startMode, startN, dirty,
                   settled, synth, alloc>>

\* Mutant: the image handed in is stored in the processed buffer.
ADSetImage_Stores(maxBytes, value) ==
    /\ ~crashed
    /\ callerPc = "in"
    /\ call = "ADSetImage"
    /\ imageBuffer' = [k \in 1..Len(imageBuffer) |->
                          IF k <= maxBytes THEN value ELSE imageBuffer[k]]
    /\ op' = [NoOp EXCEPT !.kind = "setImage", !.maxBytes = maxBytes, !.failed = FALSE]
    /\ lastStatus' = AREA_DETECTOR_OK
    /\ mutexOwner' = NOBODY
    /\ callerPc' = "out"
    /\ call' = "none"
    /\ UNCHANGED <<cfgPc, params, framesRemaining, rawBuffer, bufferSize, eventFull,
                   callbackSet, fileSys, fixed, notified, taskPc, acquiring, delayBase,
                   crashed, delivered, startMode, startN, dirty, settled, synth,
                   alloc>>

\* ADSetImage(pCamera, maxBytes, buffer), from after epicsMutexLock to the
\* return: "The simDetector does not allow downloading image data".  value
\* is what the caller's buffer holds.
ADSetImage(maxBytes, value) ==
    /\ ~crashed
    /\ callerPc = "in"
    /\ call = "ADSetImage"
    /\ op' = [NoOp EXCEPT !.kind = "setImage", !.maxBytes = maxBytes, !.failed = TRUE]
    /\ lastStatus' = AREA_DETECTOR_ERROR
    /\ mutexOwner' = NOBODY
    /\ callerPc' = "out"
    /\ call' = "none"
    /\ UNCHANGED <<cfgPc, device, eventFull, callbackSet, fileSys, fixed, notified,
                   taskPc, acquiring, delayBase, crashed, delivered, startMode, startN,
                   dirty, settled, synth, alloc>>

\* ADSetImage(NULL, maxBytes, buffer): the call returns at once, without
\* the mutex.
ADSetImage_NullHandle(maxBytes) ==
    /\ ~crashed
    /\ cfgPc = "returned"
    /\ callerPc = "out"
    /\ op' = [NoOp EXCEPT !.kind = "setImage", !.maxBytes = maxBytes, !.failed = TRUE]
    /\ lastStatus' = AREA_DETECTOR_ERROR
    /\ UNCHANGED <<cfgPc, device, mutexOwner, eventFull, callbackSet, fileSys, fixed,
                   notified, taskPc, acquiring, delayBase, callerPc, call, crashed,
                   delivered, startMode, startN, dirty, settled, synth, alloc>>

\* ---------------------------------------------------------- specifications
\* What uninitialised memory may read as.
Fills == {0, 85}

\* Uninitialised memory that reads as zero.
ZeroFills == {0}

\* Spec: the acquisition state machine and the locking, on a small sensor.
ConfigArgs == {<<2, 2, ADUInt8>>}

Entries == {"ADSetInteger", "ADSetDouble", "ADSetImageDataCallback"}

IntegerArgs ==
    ({"ADAcquire"} \X {0, 1})
    \cup ({"ADFrameMode"} \X {ADFrameSingle, ADFrameMultiple, ADFrameContinuous})
    \cup ({"ADNumFrames"} \X (1..MaxNumFrames))

DoubleArgs == {"ADAcquirePeriod"} \X {0}

\* The builds: every outcome of the two undefined behaviours.
Builds == [fp : {"wrap", "saturate"}, ovf : {"wrap", "exact"}]

Init == InitWith(ConfigArgs, {[fp |-> "wrap", ovf |-> "wrap"]})

Next ==
    \/ simDetectorConfig_Compute
    \/ \E fill \in Fills : simDetectorConfig_Return(fill)
    \/ simTask_Lock
    \/ simTask_Check
    \/ simTask_EventWait
    \/ simTask_Relock
    \/ \E fill \in Fills : simTask_Compute(fill)
    \/ simTask_Deliver
    \/ simTask_Count
    \/ \E io \in IoOutcomes : simTask_AutoSave(io)
    \/ simTask_Flush
    \/ simTask_Unlock
    \/ \E positive \in BOOLEAN : simTask_Pace(positive)
    \/ simTask_PaceWait
    \/ \E entry \in Entries : Caller_Enter(entry)
    \/ \E a \in IntegerArgs, io \in IoOutcomes, fill \in Fills :
          ADSetInteger(a[1], a[2], io, fill)
    \/ \E a \in DoubleArgs, fill \in Fills : ADSetDouble(a[1], a[2], fill)
    \/ ADSetImageDataCallback

Spec == Init /\ [][Next]_vars

\* SpecGeom: the geometry parameters over the whole int range, simTask idle.
GeomConfigArgs == {<<3, 2, ADUInt8>>}

GeomArgs ==
    ({"ADBinX"} \X {-1, 2})
    \cup ({"ADMinX"} \X {-1, 1, INT_MAX})
    \cup ({"ADSizeX"} \X {-1, 1, INT_MAX})
    \cup ({"ADMinY"} \X {1})
    \cup ({"ADSizeY"} \X {INT_MAX})
    \cup ({"ADMaxSizeX"} \X {1})

InitGeom == InitWith(GeomConfigArgs, {b \in Builds : b.fp = "wrap"})

NextGeom ==
    \/ simDetectorConfig_Compute
    \/ \E fill \in Fills : simDetectorConfig_Return(fill)
    \/ simTask_Lock
    \/ simTask_Check
    \/ Caller_Enter("ADSetInteger")
    \/ \E a \in GeomArgs, fill \in Fills : ADSetInteger(a[1], a[2], "ok", fill)

SpecGeom == InitGeom /\ [][NextGeom]_vars

\* SpecBin: binning and region of interest on a 10 x 10 sensor, simTask idle.
BinConfigArgs == {<<10, 10, ADUInt8>>}

BinArgs ==
    ({"ADBinX"} \X {1, 2, 3})
    \cup ({"ADBinY"} \X {1, 2})
    \cup ({"ADMinX"} \X {0, 1})
    \cup ({"ADSizeX"} \X {7, 10})

InitBin == InitWith(BinConfigArgs, {[fp |-> "wrap", ovf |-> "wrap"]})

NextBin ==
    \/ simDetectorConfig_Compute
    \/ \E fill \in Fills : simDetectorConfig_Return(fill)
    \/ simTask_Lock
    \/ simTask_Check
    \/ Caller_Enter("ADSetInteger")
    \/ \E a \in BinArgs, fill \in Fills : ADSetInteger(a[1], a[2], "ok", fill)

SpecBin == InitBin /\ [][NextBin]_vars

\* SpecSynth: the synthesis while simTask acquires, with gain, exposure and
\* sensor-size changes, on every build of the out-of-range conversion.
SynthIntegerArgs == ({"ADAcquire"} \X {0, 1}) \cup ({"ADMaxSizeX"} \X {1})

SynthDoubleArgs == ({"ADGain"} \X {-1}) \cup ({"ADAcquireTime"} \X {1})

InitSynth == InitWith(ConfigArgs, {b \in Builds : b.ovf = "wrap"})

NextSynth ==
    \/ simDetectorConfig_Compute
    \/ \E fill \in Fills : simDetectorConfig_Return(fill)
    \/ simTask_Lock
    \/ simTask_Check
    \/ simTask_EventWait
    \/ simTask_Relock
    \/ \E fill \in Fills : simTask_Compute(fill)
    \/ simTask_Deliver
    \/ simTask_Count
    \/ simTask_AutoSave("ok")
    \/ simTask_Flush
    \/ simTask_Unlock
    \/ \E positive \in BOOLEAN : simTask_Pace(positive)
    \/ simTask_PaceWait
    \/ \E entry \in Entries : Caller_Enter(entry)
    \/ \E a \in SynthIntegerArgs, fill \in Fills : ADSetInteger(a[1], a[2], "ok", fill)
    \/ \E a \in SynthDoubleArgs, fill \in Fills : ADSetDouble(a[1], a[2], fill)
    \/ ADSetImageDataCallback

SpecSynth == InitSynth /\ [][NextSynth]_vars

\* SpecFile: snapshot files in every format and with every outcome of the
\* file system, with binning and pixel-type changes between the writes and
\* the reads, simTask idle.
FileConfigArgs == {<<2, 2, ADInt16>>}

\* What uninitialised memory reads as in SpecFile.
FileFills == {85}

FileArgs ==
    ({"ADWriteFile"} \X {1})
    \cup ({"ADReadFile"} \X {1})
    \cup ({"ADFileFormat"} \X {SimFormatASCII})
    \cup ({"ADBinX"} \X {2})

\* A gain that makes every pixel negative and two bytes wide.
FileDoubleArgs == {"ADGain"} \X {-300}

InitFile == InitWith(FileConfigArgs, {[fp |-> "wrap", ovf |-> "wrap"]})

NextFile ==
    \/ simDetectorConfig_Compute
    \/ \E fill \in FileFills : simDetectorConfig_Return(fill)
    \/ simTask_Lock
    \/ simTask_Check
    \/ \E entry \in Entries : Caller_Enter(entry)
    \/ \E a \in FileArgs, io \in IoOutcomes, fill \in FileFills :
          ADSetInteger(a[1], a[2], io, fill)
    \/ \E a \in FileDoubleArgs, fill \in FileFills : ADSetDouble(a[1], a[2], fill)
    \/ ADSetImageDataCallback

SpecFile == InitFile /\ [][NextFile]_vars

\* SpecEntry: the entry points and their statuses, with the file number
\* counting, a file format that is neither binary nor ASCII (2), a pixel
\* type that is none of the eight (99) and image transfers of every size,
\* simTask idle.
EntryFills == {85}

EntryEntries == {"ADSetInteger", "ADSetImageDataCallback", "ADGetImage", "ADSetImage"}

EntryArgs ==
    ({"ADWriteFile"} \X {1})
    \cup ({"ADReadFile"} \X {1})
    \cup ({"ADAutoIncrement"} \X {1})
    \cup ({"ADFileFormat"} \X {2})
    \cup ({"ADDataType"} \X {99})

\* maxBytes of ADGetImage and ADSetImage: negative, below, at and above the
\* image size.
EntryMaxBytes == {-1, 1, 4, 100}

NextEntry ==
    \/ simDetectorConfig_Compute
    \/ \E fill \in EntryFills : simDetectorConfig_Return(fill)
    \/ simTask_Lock
    \/ simTask_Check
    \/ \E entry \in EntryEntries : Caller_Enter(entry)
    \/ \E a \in EntryArgs, io \in IoOutcomes, fill \in EntryFills :
          ADSetInteger(a[1], a[2], io, fill)
    \/ ADSetImageDataCallback
    \/ \E maxBytes \in EntryMaxBytes, overrun \in BOOLEAN : ADGetImage(maxBytes, overrun)
    \/ \E maxBytes \in EntryMaxBytes : ADSetImage(maxBytes, 7)
    \/ \E maxBytes \in EntryMaxBytes : ADSetImage_NullHandle(maxBytes)

SpecEntry == Init /\ [][NextEntry]_vars

\* SpecDeliver: the deliveries of simTask and of snapshot reads, with
\* recomputes by parameter changes in between.
DeliverIntegerArgs ==
    ({"ADAcquire"} \X {1})
    \cup ({"ADWriteFile"} \X {1})
    \cup ({"ADReadFile"} \X {1})
    \cup ({"ADBinX"} \X {2})

DeliverDoubleArgs == {"ADGain"} \X {0}

NextDeliver ==
    \/ simDetectorConfig_Compute
    \/ \E fill \in ZeroFills : simDetectorConfig_Return(fill)
    \/ simTask_Lock
    \/ simTask_Check
    \/ simTask_EventWait
    \/ simTask_Relock
    \/ \E fill \in ZeroFills : simTask_Compute(fill)
    \/ simTask_Deliver
    \/ simTask_Count
    \/ simTask_AutoSave("ok")
    \/ simTask_Flush
    \/ simTask_Unlock
    \/ \E positive \in BOOLEAN : simTask_Pace(positive)
    \/ simTask_PaceWait
    \/ \E entry \in Entries : Caller_Enter(entry)
    \/ \E a \in DeliverIntegerArgs, fill \in ZeroFills :
          ADSetInteger(a[1], a[2], "ok", fill)
    \/ \E a \in DeliverDoubleArgs, fill \in ZeroFills : ADSetDouble(a[1], a[2], fill)
    \/ ADSetImageDataCallback

SpecDeliver == Init /\ [][NextDeliver]_vars

\* SpecAlloc: malloc failing or not at every allocation, simTask acquiring
\* while the sensor size changes.
AllocFills == {0, MallocFailed}

AllocEntries == {"ADSetInteger", "ADSetImageDataCallback"}

AllocArgs == ({"ADAcquire"} \X {0, 1}) \cup ({"ADMaxSizeX"} \X {1, 2})

NextAlloc ==
    \/ simDetectorConfig_Compute
    \/ \E fill \in AllocFills : simDetectorConfig_Return(fill)
    \/ simTask_Lock
    \/ simTask_Check
    \/ simTask_EventWait
    \/ simTask_Relock
    \/ \E fill \in AllocFills : simTask_Compute(fill)
    \/ simTask_Deliver
    \/ simTask_Count
    \/ simTask_AutoSave("ok")
    \/ simTask_Flush
    \/ simTask_Unlock
    \/ \E positive \in BOOLEAN : simTask_Pace(positive)
    \/ simTask_PaceWait
    \/ \E entry \in AllocEntries : Caller_Enter(entry)
    \/ \E a \in AllocArgs, fill \in AllocFills : ADSetInteger(a[1], a[2], "ok", fill)
    \/ ADSetImageDataCallback

SpecAlloc == Init /\ [][NextAlloc]_vars

\* SpecIter: the iterations of simTask with the auto-save on and off and
\* every outcome of the file system, started and stopped by the caller.
IterArgs ==
    ({"ADAcquire"} \X {0, 1})
    \cup ({"ADAutoSave"} \X {1})
    \cup ({"ADFrameMode"} \X {ADFrameSingle})

NextIter ==
    \/ simDetectorConfig_Compute
    \/ \E fill \in ZeroFills : simDetectorConfig_Return(fill)
    \/ simTask_Lock
    \/ simTask_Check
    \/ simTask_EventWait
    \/ simTask_Relock
    \/ \E fill \in ZeroFills : simTask_Compute(fill)
    \/ simTask_Deliver
    \/ simTask_Count
    \/ \E io \in IoOutcomes : simTask_AutoSave(io)
    \/ simTask_Flush
    \/ simTask_Unlock
    \/ \E positive \in BOOLEAN : simTask_Pace(positive)
    \/ simTask_PaceWait
    \/ \E entry \in AllocEntries : Caller_Enter(entry)
    \/ \E a \in IterArgs, fill \in ZeroFills : ADSetInteger(a[1], a[2], "ok", fill)
    \/ ADSetImageDataCallback

SpecIter == Init /\ [][NextIter]_vars

\* SpecSnap: snapshots written and read back with the region of interest
\* changed in between, and image transfers, simTask idle.
SnapEntries == {"ADSetInteger", "ADSetImageDataCallback", "ADGetImage"}

SnapArgs ==
    ({"ADWriteFile"} \X {1})
    \cup ({"ADReadFile"} \X {1})
    \cup ({"ADSizeX"} \X {1, 2})

\* maxBytes of ADGetImage: the size of the whole sensor, and above it.
SnapMaxBytes == {4, 100}

NextSnap ==
    \/ simDetectorConfig_Compute
    \/ \E fill \in ZeroFills : simDetectorConfig_Return(fill)
    \/ simTask_Lock
    \/ simTask_Check
    \/ \E entry \in SnapEntries : Caller_Enter(entry)
    \/ \E a \in SnapArgs, fill \in ZeroFills : ADSetInteger(a[1], a[2], "ok", fill)
    \/ ADSetImageDataCallback
    \/ \E maxBytes \in SnapMaxBytes, overrun \in BOOLEAN : ADGetImage(maxBytes, overrun)

SpecSnap == Init /\ [][NextSnap]_vars

\* SpecCount: acquisitions in frame mode multiple with requested counts
\* of zero and below.
CountArgs ==
    ({"ADAcquire"} \X {0, 1})
    \cup ({"ADFrameMode"} \X {ADFrameMultiple})
    \cup ({"ADNumFrames"} \X {-2, 0})

NextCount ==
    \/ simDetectorConfig_Compute
    \/ \E fill \in ZeroFills : simDetectorConfig_Return(fill)
    \/ simTask_Lock
    \/ simTask_Check
    \/ simTask_EventWait
    \/ simTask_Relock
    \/ \E fill \in ZeroFills : simTask_Compute(fill)
    \/ simTask_Deliver
    \/ simTask_Count
    \/ simTask_AutoSave("ok")
    \/ simTask_Flush
    \/ simTask_Unlock
    \/ \E positive \in BOOLEAN : simTask_Pace(positive)
    \/ simTask_PaceWait
    \/ \E entry \in AllocEntries : Caller_Enter(entry)
    \/ \E a \in CountArgs, fill \in ZeroFills : ADSetInteger(a[1], a[2], "ok", fill)
    \/ ADSetImageDataCallback

SpecCount == Init /\ [][NextCount]_vars

\* SpecMode: the frame mode set to its three values and to one beyond them,
\* before and during acquisitions.
ModeValues == {ADFrameSingle, ADFrameMultiple, ADFrameContinuous, ADFrameContinuous + 1}

ModeArgs ==
    ({"ADAcquire"} \X {0, 1})
    \cup ({"ADFrameMode"} \X ModeValues)
    \cup ({"ADNumFrames"} \X {MaxNumFrames})

NextMode ==
    \/ simDetectorConfig_Compute
    \/ \E fill \in ZeroFills : simDetectorConfig_Return(fill)
    \/ simTask_Lock
    \/ simTask_Check
    \/ simTask_EventWait
    \/ simTask_Relock
    \/ \E fill \in ZeroFills : simTask_Compute(fill)
    \/ simTask_Deliver
    \/ simTask_Count
    \/ simTask_AutoSave("ok")
    \/ simTask_Flush
    \/ simTask_Unlock
    \/ \E positive \in BOOLEAN : simTask_Pace(positive)
    \/ simTask_PaceWait
    \/ \E entry \in AllocEntries : Caller_Enter(entry)
    \/ \E a \in ModeArgs, fill \in ZeroFills : ADSetInteger(a[1], a[2], "ok", fill)
    \/ ADSetImageDataCallback

SpecMode == Init /\ [][NextMode]_vars

\* SpecStop: starts and stops in frame modes continuous and single, and
\* changes of the exposure time and period, with a scheduler
\* that lets every thread run: a thread that can take a step takes it, a
\* thread waiting for the mutex gets it when it is free again and again, and
\* an entry point that was entered returns.
StopArgs == ({"ADAcquire"} \X {0, 1}) \cup ({"ADFrameMode"} \X {ADFrameSingle})

StopDoubleArgs == {"ADAcquireTime", "ADAcquirePeriod"} \X {0}

NextStop ==
    \/ simDetectorConfig_Compute
    \/ \E fill \in ZeroFills : simDetectorConfig_Return(fill)
    \/ simTask_Lock
    \/ simTask_Check
    \/ simTask_EventWait
    \/ simTask_Relock
    \/ \E fill \in ZeroFills : simTask_Compute(fill)
    \/ simTask_Deliver
    \/ simTask_Count
    \/ simTask_AutoSave("ok")
    \/ simTask_Flush
    \/ simTask_Unlock
    \/ \E positive \in BOOLEAN : simTask_Pace(positive)
    \/ simTask_PaceWait
    \/ \E entry \in Entries : Caller_Enter(entry)
    \/ \E a \in StopArgs, fill \in ZeroFills : ADSetInteger(a[1], a[2], "ok", fill)
    \/ \E a \in StopDoubleArgs, fill \in ZeroFills : ADSetDouble(a[1], a[2], fill)
    \/ ADSetImageDataCallback

\* simComputeImage returns: the step of simDetectorConfig, of simTask and of
\* ADSetDouble that runs it is taken once it can be, which is to say that
\* the thread is not for ever about to take it.
FairCompute ==
    /\ []<>~(~crashed /\ cfgPc = "computing")
    /\ []<>~(~crashed /\ taskPc = "compute" /\ delivered < MaxFrames)
    /\ []<>~(~crashed /\ callerPc = "in" /\ call = "ADSetDouble")

FairStop ==
    /\ WF_vars(simDetectorConfig_Compute)
    /\ SF_vars(simTask_Lock)
    /\ WF_vars(simTask_Check)
    /\ WF_vars(simTask_EventWait)
    /\ SF_vars(simTask_Relock)
    /\ WF_vars(simTask_Deliver)
    /\ WF_vars(simTask_Count)
    /\ WF_vars(simTask_AutoSave("ok"))
    /\ WF_vars(simTask_Flush)
    /\ WF_vars(simTask_Unlock)
    /\ WF_vars(\E positive \in BOOLEAN : simTask_Pace(positive))
    /\ WF_vars(simTask_PaceWait)
    /\ WF_vars(\E a \in StopArgs, fill \in ZeroFills : ADSetInteger(a[1], a[2], "ok", fill))
    /\ WF_vars(ADSetImageDataCallback)
    /\ FairCompute

SpecStop == Init /\ [][NextStop]_vars /\ FairStop

\* SpecSetup: the two setup functions of the shell, with every camera number
\* in and out of range and every failure of a creation.
SetupCounts == {0, 1, 2}

SetupCameras == {-1, 0, 1, 2}

NextSetup ==
    \/ \E n \in SetupCounts, callocOk \in BOOLEAN : simDetectorSetup(n, callocOk)
    \/ \E camera \in SetupCameras, c \in ConfigArgs, outcome \in ConfigOutcomes :
          simDetectorConfig_Create(camera, c[1], c[2], c[3], outcome)
    \/ simDetectorConfig_Compute
    \/ \E fill \in ZeroFills : simDetectorConfig_Return(fill)

SpecSetup == InitSetup /\ [][NextSetup]_vars

\* ------------------------------------------------------------------ claims
\* simTask is blocked in epicsEventWait with nothing to wake it.
TaskIdle == taskPc = "idleWait" /\ ~eventFull

\* simTask is inside one iteration, between taking the mutex and releasing it.
TaskLockedPcs == {"check", "compute", "deliver", "count", "save", "flush", "unlock"}

\* C1: after a start command in frame mode single (and no later start, stop
\* or frame-mode command), simTask makes exactly one image-data callback:
\* never more than one, and when it is back in the idle wait it has made one
\* and ADAcquire reads 0.
C1_SingleStartOneFrame ==
    startMode = ADFrameSingle =>
        /\ delivered <= 1
        /\ (TaskIdle /\ ~crashed) => (delivered = 1 /\ params.ADAcquire = 0)

\* C2: after a start command in frame mode multiple with ADNumFrames = N >= 1
\* and no later start, stop or frame-mode command, simTask makes exactly N
\* image-data callbacks, framesRemaining going down by one with each, and
\* then clears ADAcquire and waits idle.
C2_MultipleStartNFrames ==
    (startMode = ADFrameMultiple /\ startN >= 1) =>
        /\ delivered <= startN
        /\ (taskPc # "count" /\ delivered <= startN) =>
                framesRemaining = startN - delivered
        /\ (TaskIdle /\ ~crashed) => (delivered = startN /\ params.ADAcquire = 0)

\* C3: a thread that is reading or writing the parameter library, the frame
\* buffers or framesRemaining holds the mutex: simTask inside its iteration,
\* the caller inside an entry point, simDetectorConfig inside simComputeImage.
C3_AccessUnderLock ==
    /\ taskPc \in TaskLockedPcs => mutexOwner = TASK
    /\ callerPc = "in" => mutexOwner = CALLER
    /\ cfgPc = "computing" => mutexOwner = CONFIG

\* C4: an entry point (ADSetInteger, ADSetDouble, ...) is never inside its
\* body while simTask is inside an iteration: the two exclude each other.
C4_NoInterleaving == ~(callerPc = "in" /\ taskPc \in TaskLockedPcs)

\* An entry point is in its body while simTask, woken by a start, waits for
\* the mutex to begin its iteration.
C4_Witness ==
    /\ callerPc = "in" /\ call = "ADSetInteger"
    /\ taskPc = "relock"
    /\ params.ADAcquire = 1

\* C5: simTask does not hold the mutex while it is suspended in the idle
\* wait or in the pacing wait.
C5_WaitsUnlocked == taskPc \in {"idleWait", "paceWait"} => mutexOwner # TASK

\* A caller holds the mutex while simTask is in the pacing wait.
C5_Witness == taskPc = "paceWait" /\ mutexOwner = CALLER /\ callerPc = "in"

\* The clamps on the stored geometry, as mathematical integers:
\* 0 <= min <= maxSize - 1 and min + size <= maxSize on both axes.
Clamped(p) ==
    /\ p.ADMinX >= 0 /\ p.ADMinX <= p.ADMaxSizeX - 1
    /\ p.ADSizeX <= p.ADMaxSizeX - p.ADMinX
    /\ p.ADMinY >= 0 /\ p.ADMinY <= p.ADMaxSizeY - 1
    /\ p.ADSizeY <= p.ADMaxSizeY - p.ADMinY

\* C6: once the corrections of simComputeImage have run (and nothing has
\* written a geometry parameter since), the stored ADMinX, ADMinY, ADSizeX,
\* ADSizeY satisfy the clamps.
C6_ClampedAfterCorrection == settled => Clamped(params)

\* C7: when an entry point has returned, the stored geometry satisfies the
\* clamps; stated for the builds whose clamp comparison does not overflow.
C7_ClampedAfterReturn ==
    (cfgPc = "returned" /\ callerPc = "out" /\ build.ovf = "exact") => Clamped(params)

\* C8 (the "if" half): a synthesis that follows a change of a geometry,
\* pixel-type, gain or exposure parameter runs with reset true.
C8_ChangeForcesReset == synth.dirty => synth.reset

\* The reference synthesis: with reset, pixel (row i, col j) is
\* j*gainX + i*gainY + intensity; without, the previous value + intensity;
\* computed exactly, truncated and stored modulo 2^w.  Values in halves:
\* 2 * intensity = ADGain * ADAcquireTime.
Reference(raw, p) ==
    LET h == p.ADGain * p.ADAcquireTime
    IN  IF p.SimResetImage # 0
        THEN [k \in 1..(p.ADMaxSizeX * p.ADMaxSizeY) |->
                Wrap(p.ADDataType,
                     DivC(2 * (((k - 1) % p.ADMaxSizeX) * p.SimGainX
                               + ((k - 1) \div p.ADMaxSizeX) * p.SimGainY) + h, 2))]
        ELSE [k \in 1..(p.ADMaxSizeX * p.ADMaxSizeY) |->
                Wrap(p.ADDataType, DivC(2 * raw[k] + h, 2))]

\* C9: the raw buffer that simTask's synthesis leaves is the reference
\* synthesis of the buffer and the parameters it found; stated for the
\* builds whose out-of-range conversion wraps.
C9_SynthesisMatchesReference ==
    [][(/\ taskPc = "compute" /\ taskPc' = "deliver"
        /\ build.fp = "wrap"
        /\ Len(rawBuffer) = params.ADMaxSizeX * params.ADMaxSizeY)
       => rawBuffer' = Reference(rawBuffer, params)]_vars

C11_AllocateIdempotent == alloc # "broken"

\* A snapshot read has resized the buffers to a binned 1 x 2 frame, and the
\* read after it found them of the required size and kept them.
C11_Witness == alloc = "kept" /\ op.kind = "read" /\ bufferSize = 4

\* C12: at every point where the mutex is free after simDetectorConfig has
\* returned, the buffers (allocated together, bufferSize bytes each) have
\* the byte size ADMaxSizeX * ADMaxSizeY * bytesPerPixel(ADDataType), and
\* bufferSize is that number.
C12_BuffersSizedForSensor ==
    (cfgPc = "returned" /\ mutexOwner = NOBODY /\ ~crashed)
    => bufferSize = Mul32(Mul32(params.ADMaxSizeX, params.ADMaxSizeY),
                          bytesPerPixel(params.ADDataType))

\* The image and file parameters a failed snapshot operation must leave.
KeptOnFailure == GeometryKeys \cup {"ADDataType", "ADImageSizeX", "ADImageSizeY",
                                    "ADImageSize", "ADFullFileName"}

\* C15: a snapshot write or read that fails with an I/O error (the name
\* cannot be built, the file cannot be opened) returns an error status,
\* leaves the processed buffer, bufferSize, the geometry, type and image
\* parameters and the full file name as they were, and does not call the
\* image-data callback.
C15_FailedIoChangesNothing ==
    [][(/\ callerPc = "in" /\ callerPc' = "out"
        /\ op'.kind \in {"write", "read"}
        /\ op'.io \in {"noname", "noopen"})
       => /\ lastStatus' # AREA_DETECTOR_OK
          /\ imageBuffer' = imageBuffer
          /\ bufferSize' = bufferSize
          /\ \A k \in KeptOnFailure : params'[k] = params[k]
          /\ delivered' = delivered
          /\ ~crashed']_vars

\* A read whose fopen failed although the file is there has returned.
C15_Witness ==
    /\ callerPc = "out" /\ op.kind = "read" /\ op.io = "noopen"
    /\ fileSys[params.ADFileNumber].exists
    /\ lastStatus = AREA_DETECTOR_ERROR

\* A frame of an integer pixel type whose data fill its width and height.
WellFormed(frame) ==
    /\ frame.dataType \in IntegerTypes
    /\ frame.sizeX > 0 /\ frame.sizeY > 0
    /\ Len(frame.data) = frame.sizeX * frame.sizeY

\* C16: a frame written by a snapshot write and read back from the same path
\* in the same format (binary or ASCII, integer pixel type) is reproduced:
\* ADImageSizeX, ADImageSizeY and ADDataType are those written, the
\* processed buffer holds the pixel values written, and the frame is
\* delivered through the image-data callback.
C16_RoundTrip ==
    [][(/\ callerPc = "in" /\ callerPc' = "out"
        /\ op'.kind = "read" /\ op'.io = "ok"
        /\ fileSys[params.ADFileNumber].format = params.ADFileFormat
        /\ WellFormed(fileSys[params.ADFileNumber].frame))
       => /\ lastStatus' = AREA_DETECTOR_OK
          /\ params'.ADImageSizeX = fileSys[params.ADFileNumber].frame.sizeX
          /\ params'.ADImageSizeY = fileSys[params.ADFileNumber].frame.sizeY
          /\ params'.ADDataType = fileSys[params.ADFileNumber].frame.dataType
          /\ imageBuffer' = fileSys[params.ADFileNumber].frame.data
          /\ callbackSet => delivered' = delivered + 1]_vars

\* The full 2 x 2 frame of negative pixels was written as ASCII; binning
\* then replaced the processed image; the read has brought the frame back
\* and delivered it.
C16_Witness ==
    /\ callerPc = "out" /\ op.kind = "read" /\ op.io = "ok"
    /\ lastStatus = AREA_DETECTOR_OK /\ ~crashed /\ delivered > 0
    /\ params.ADFileFormat = SimFormatASCII
    /\ fileSys[params.ADFullFileName].format = SimFormatASCII
    /\ WellFormed(fileSys[params.ADFullFileName].frame)
    /\ imageBuffer = fileSys[params.ADFullFileName].frame.data
    /\ params.ADBinX = 2 /\ params.ADImageSizeX = 2 /\ params.ADImageSizeY = 2
    /\ \A k \in 1..4 : imageBuffer[k] < -255

\* C14: with auto-increment enabled, ADFileNumber is incremented by exactly 1
\* by each successful snapshot write or read, and is left as it is by each
\* one that fails or that writes or reads no file (the name cannot be built,
\* the file cannot be opened, the file format is not recognised).
C14_FileNumberCounts ==
    [][(/\ callerPc = "in" /\ callerPc' = "out"
        /\ op'.kind \in {"write", "read"}
        /\ params.ADAutoIncrement # 0)
       => params'.ADFileNumber =
             IF op'.io = "ok" THEN params.ADFileNumber + 1 ELSE params.ADFileNumber]_vars

\* C17: the status a parameter-mutation call returns is the OR of the
\* statuses of its steps: when the parameter write, the image computation
\* or the snapshot write or read it made failed, the status is not OK.
C17_StatusIsOrOfSteps ==
    (callerPc = "out" /\ op.kind \in {"none", "write", "read"} /\ op.failed)
    => lastStatus # AREA_DETECTOR_OK

\* The state ADSetImage must leave as it is.
imageState == <<params, framesRemaining, rawBuffer, imageBuffer, bufferSize, fileSys,
                callbackSet>>

\* C19: ADSetImage returns an error status for every handle, size and
\* source buffer, and leaves the raw buffer, the processed buffer and the
\* parameter library as they were.
C19_SetImageUnsupported ==
    [][(\/ call = "ADSetImage" /\ callerPc = "in" /\ callerPc' = "out"
        \/ callerPc = "out" /\ callerPc' = "out" /\ op' # op)
       => /\ op'.kind = "setImage"
          /\ lastStatus' = AREA_DETECTOR_ERROR
          /\ UNCHANGED imageState]_vars

\* ADSetImage has returned from a call with a valid handle, the image being
\* computed and a callback registered.
C19_Witness ==
    /\ op.kind = "setImage" /\ op.maxBytes = 4 /\ callerPc = "out"
    /\ mutexOwner = NOBODY /\ lastStatus = AREA_DETECTOR_ERROR
    /\ callbackSet /\ Len(imageBuffer) = 4

\* C20: ADGetImage copies exactly min(maxBytes, ADImageSize) bytes from the
\* start of the processed buffer, never more than maxBytes, and changes no
\* state of the driver.
C20_GetImageCopiesMin ==
    (op.kind = "getImage")
    => /\ op.bytes = (IF params.ADImageSize < op.maxBytes THEN params.ADImageSize
                      ELSE op.maxBytes)
       /\ op.bytes <= op.maxBytes
       /\ ~crashed

\* The step calls the image-data callback.
Delivers == delivered' = delivered + 1

\* The step is the delivery of a simTask iteration.
TaskDelivery == taskPc = "deliver" /\ taskPc' = "count"

\* The step is a snapshot read that returns OK.
SuccessfulRead ==
    /\ callerPc = "in" /\ callerPc' = "out"
    /\ op'.kind = "read" /\ lastStatus' = AREA_DETECTOR_OK

\* C13: the image-data callback is called exactly once per completed frame:
\* once in every iteration of simTask, once by every successful snapshot
\* read, and by no other step, so never by the recompute that ADSetInteger
\* or ADSetDouble makes.
C13_OneDeliveryPerFrame ==
    [][~crashed' => (Delivers <=> (TaskDelivery \/ SuccessfulRead))]_vars

\* Since the last start a snapshot read has delivered one frame and simTask
\* has just delivered the other, the image having been recomputed for a new
\* binning without a delivery.
C13_Witness ==
    /\ delivered = 2 /\ taskPc = "count" /\ startMode # -1
    /\ op.kind = "read" /\ op.io = "ok" /\ lastStatus = AREA_DETECTOR_OK
    /\ params.ADBinX = 2 /\ ~crashed

\* C18: when malloc fails in simAllocateBuffer the call reports the failure
\* and simTask skips synthesis and delivery for that frame and allocates
\* again in the next iteration: the synthesis never writes through a null
\* buffer pointer.
C18_AllocationFailureSkipsFrame ==
    ~(crashed /\ taskPc = "deliver" /\ rawBuffer = NoBuffer /\ bufferSize # 0)

\* A step of simDetectorConfig from its head to its first return or to the
\* creation of the thread.
ConfigCall == ShellFree /\ op'.kind = "config"

\* C21: simDetectorConfig returns an error when the camera number is outside
\* [0, numCameras) or when numCameras is 0, and then creates no mutex, event,
\* parameter library or thread and changes nothing of any instance.
C21_ConfigRejectsBadIndex ==
    [][(ConfigCall /\ ~(numCameras >= 1 /\ op'.camera >= 0 /\ op'.camera < numCameras))
       => /\ lastStatus' = AREA_DETECTOR_ERROR
          /\ UNCHANGED <<numCameras, allCameras, cfgPc, device, mutexOwner, eventFull,
                         callbackSet, fileSys, taskPc, crashed>>]_vars

\* simDetectorConfig was refused for camera 1 of one, the configured
\* instance 0 keeping its thread.
C21_Witness ==
    /\ op.kind = "config" /\ op.camera = 1 /\ numCameras = 1
    /\ lastStatus = AREA_DETECTOR_ERROR
    /\ cfgPc = "returned"
    /\ allCameras = <<[mutexes |-> 1, events |-> 1, libraries |-> 1, tasks |-> 1]>>

\* C22: no instance of the array has more than one simTask thread running
\* its acquisition loop.
C22_OneTaskPerInstance == \A i \in DOMAIN allCameras : allCameras[i].tasks <= 1

\* C23: a start command in frame mode continuous sets framesRemaining to -1
\* and, until a stop or frame-mode command follows, framesRemaining stays -1
\* and ADAcquire stays set; no step of simTask changes a framesRemaining of
\* -1 or clears ADAcquire while framesRemaining is -1.
C23_ContinuousRunsOn ==
    [][/\ startMode' = ADFrameContinuous =>
              (framesRemaining' = -1 /\ params'.ADAcquire # 0)
       /\ (framesRemaining = -1 /\ taskPc' # taskPc) =>
              (framesRemaining' = -1 /\ params'.ADAcquire = params.ADAcquire)]_vars

\* simTask has delivered three frames since a continuous start and waits
\* for the next.
C23_Witness ==
    /\ startMode = ADFrameContinuous /\ delivered = 3
    /\ taskPc = "paceWait"
    /\ framesRemaining = -1 /\ params.ADAcquire = 1

\* C24: once the corrections of simComputeImage have run (and nothing has
\* written a geometry parameter since), the stored ADBinX and ADBinY are at
\* least 1.
C24_BinningNormalized == settled => (params.ADBinX >= 1 /\ params.ADBinY >= 1)

\* The position that follows each position of the body of an iteration.
AfterPc ==
    [compute |-> "deliver", deliver |-> "count", count |-> "save", save |-> "flush",
     flush |-> "unlock"]

\* simTask takes a step.
TaskStep == taskPc' # taskPc

\* C25: the body of an iteration of simTask runs in the order image
\* computation, image-data callback, count-down of framesRemaining when it
\* is above 0 and clearing of ADAcquire when it is 0, auto-save when
\* enabled, callCallbacks, with the mutex held by simTask from before the
\* computation to after callCallbacks; each of these things is done in its
\* own step and in no other step of simTask; the mutex is released by the
\* step after callCallbacks and is not held in the pacing wait.
C25_IterationOrder ==
    [][/\ (TaskStep /\ taskPc \in DOMAIN AfterPc) =>
              /\ taskPc' = AfterPc[taskPc]
              /\ mutexOwner = TASK /\ mutexOwner' = TASK
       /\ (TaskStep /\ taskPc = "compute" /\ ~crashed') =>
              (settled' /\ params'.SimResetImage = 0 /\ params'.ADStatus = ADStatusAcquire)
       /\ (TaskStep /\ taskPc = "deliver" /\ ~crashed') => delivered' = delivered + 1
       /\ (TaskStep /\ taskPc # "deliver") => delivered' = delivered
       /\ (TaskStep /\ taskPc = "count") =>
              /\ framesRemaining' = IF framesRemaining > 0 THEN framesRemaining - 1
                                    ELSE framesRemaining
              /\ params'.ADAcquire = IF framesRemaining' = 0 THEN 0 ELSE params.ADAcquire
       /\ (TaskStep /\ taskPc # "count") =>
              (framesRemaining' = framesRemaining /\ params'.ADAcquire = params.ADAcquire)
       /\ (TaskStep /\ taskPc = "save" /\ params.ADAutoSave = 0) => fileSys' = fileSys
       /\ (TaskStep /\ taskPc # "save") => fileSys' = fileSys
       /\ (TaskStep /\ taskPc = "flush") => notified' = callCallbacks(params)
       /\ (TaskStep /\ taskPc \notin {"flush", "check"}) => notified' = notified
       /\ (TaskStep /\ taskPc = "unlock") =>
              (mutexOwner = TASK /\ mutexOwner' = NOBODY /\ taskPc' \in {"pace", "top"})
       /\ taskPc' = "paceWait" => mutexOwner' # TASK]_vars

\* The iteration of a single start with the auto-save on has delivered its
\* frame, cleared ADAcquire, written the file and told the callbacks, and is
\* about to release the mutex.
C25_Witness ==
    /\ taskPc = "unlock" /\ mutexOwner = TASK
    /\ startMode = ADFrameSingle /\ framesRemaining = 0
    /\ delivered = 1 /\ params.ADAutoSave = 1
    /\ fileSys[0].exists
    /\ params.ADAcquire = 0 /\ notified.ADAcquire = 0
    /\ notified.ADStatus = ADStatusAcquire

\* The caller's ADSetInteger(ADAcquire, 0) returns, having cleared a set flag.
StopCommand ==
    /\ callerPc = "in" /\ callerPc' = "out"
    /\ params.ADAcquire # 0 /\ params'.ADAcquire = 0

\* The caller's ADSetInteger(ADAcquire, nonzero) returns: the flag is set
\* and the event signalled.
StartCommand ==
    /\ callerPc = "in" /\ callerPc' = "out"
    /\ call = "ADSetInteger"
    /\ params'.ADAcquire # 0 /\ eventFull'

\* simTask is blocked in the idle wait, ADStatus is idle and the callbacks
\* were told so.
IdlePublished ==
    /\ TaskIdle
    /\ params.ADStatus = ADStatusIdle
    /\ notified.ADStatus = ADStatusIdle

\* C26: a stop command does not fall into the body of an iteration, and an
\* iteration that has begun goes on to its end whatever ADAcquire reads;
\* the task that finds ADAcquire clear at the top of its loop sets ADStatus
\* to idle, tells the callbacks and goes to the idle wait; blocked there,
\* it stays blocked and delivers no frame until a start command signals;
\* and with ADAcquire clear the task comes to be blocked in the idle wait
\* with the idle status published, unless a start follows (a process that
\* has faulted and the frame bound aside).
C26_StopTakesEffect ==
    /\ [][/\ StopCommand => taskPc \notin TaskLockedPcs
          /\ (TaskStep /\ taskPc \in DOMAIN AfterPc /\ ~crashed') => taskPc' = AfterPc[taskPc]
          /\ (TaskStep /\ taskPc = "check" /\ params.ADAcquire = 0) =>
                 /\ taskPc' = "idleWait"
                 /\ params'.ADStatus = ADStatusIdle
                 /\ notified'.ADStatus = ADStatusIdle
          /\ (IdlePublished /\ ~StartCommand) =>
                 (IdlePublished' /\ delivered' = delivered)]_vars
    /\ (params.ADAcquire = 0) ~>
          (IdlePublished \/ params.ADAcquire # 0 \/ crashed \/ delivered >= MaxFrames)

\* Witness for C26: a stop command came while frames were being delivered,
\* and the task is blocked in the idle wait with the idle status published.
C26_Witness ==
    /\ startMode = -1
    /\ delivered = 2
    /\ params.ADAcquire = 0
    /\ IdlePublished
    /\ mutexOwner = NOBODY
    /\ callerPc = "out"

\* max(ADAcquireTime, ADAcquirePeriod) as stored.
MaxDelay == IF params.ADAcquirePeriod > params.ADAcquireTime
            THEN params.ADAcquirePeriod ELSE params.ADAcquireTime

\* C27: after the unlock simTask goes to the pacing test if framesRemaining
\* is not 0 and straight to the top of the loop if it is; the delay starts
\* from max(ADAcquireTime, ADAcquirePeriod) as read in the iteration, under
\* the mutex; the task enters the pacing wait only from that test and only if that maximum
\* is above zero (the compute time taken off it is not negative), else it
\* goes to the top of the loop; the wait ends at the top of the loop with
\* the event consumed, a start signalled during the wait included, and it
\* does end.
C27_PacingWait ==
    /\ [][/\ (TaskStep /\ taskPc = "flush") => delayBase' = MaxDelay
          /\ (TaskStep /\ taskPc = "unlock") =>
                 taskPc' = IF framesRemaining # 0 THEN "pace" ELSE "top"
          /\ (TaskStep /\ taskPc = "pace") =>
                 /\ taskPc' \in {"paceWait", "top"}
                 /\ taskPc' = "paceWait" => delayBase > 0
          /\ (TaskStep /\ taskPc' = "paceWait") => taskPc = "pace"
          /\ (TaskStep /\ taskPc = "paceWait") => (taskPc' = "top" /\ ~eventFull')
          /\ (taskPc = "paceWait" /\ StartCommand) => (taskPc' = "paceWait" /\ eventFull')]_vars
    /\ (taskPc = "paceWait") ~> (taskPc = "top" \/ crashed)

\* Witness for C27: a start command came during the pacing wait of a
\* continuous acquisition; the wait has ended and consumed its signal.
C27_Witness ==
    /\ taskPc = "top"
    /\ framesRemaining = -1
    /\ delivered = 0
    /\ startMode = ADFrameContinuous
    /\ params.ADAcquire = 1
    /\ delayBase > 0
    /\ ~eventFull
    /\ callerPc = "out"

\* Second witness for C27: both times are 0 and the task went from the
\* pacing test to the top of the loop without waiting.
C27_NoWait ==
    /\ taskPc = "top"
    /\ framesRemaining = -1
    /\ delivered = 1
    /\ delayBase = 0
    /\ acquiring # 0

\* Third witness for C27: the acquisition has just finished and the task
\* went from the unlock to the top of the loop.
C27_Finished ==
    /\ taskPc = "top"
    /\ startMode = ADFrameSingle
    /\ delivered = 1
    /\ framesRemaining = 0
    /\ acquiring = 0
    /\ delayBase > 0

\* The caller's ADSetInteger(ADFrameMode, value) returns.
FrameModeCommand(value) ==
    /\ callerPc = "in" /\ call = "ADSetInteger"
    /\ \E fill \in ZeroFills : ADSetInteger("ADFrameMode", value, "ok", fill)

\* C28: ADSetInteger(ADFrameMode, value) stores the value and sets
\* framesRemaining to 1 for single, to the stored ADNumFrames for multiple
\* and to -1 for continuous, and leaves it as it is for any other value;
\* it neither signals the event nor changes ADAcquire, and does not move
\* simTask.
C28_FrameModeResets ==
    [][\A value \in ModeValues :
          FrameModeCommand(value) =>
             /\ params'.ADFrameMode = value
             /\ framesRemaining' =
                    CASE value = ADFrameSingle -> 1
                      [] value = ADFrameMultiple -> params.ADNumFrames
                      [] value = ADFrameContinuous -> -1
                      [] OTHER -> framesRemaining
             /\ UNCHANGED <<eventFull, taskPc, acquiring, delivered>>
             /\ params'.ADAcquire = params.ADAcquire
             /\ params'.ADNumFrames = params.ADNumFrames]_vars

\* Witness for C28: during an acquisition of MaxNumFrames frames, after the
\* first frame, the frame mode was set to a value beyond the three; the
\* count is as it was and the acquisition goes on.
C28_Witness ==
    /\ params.ADFrameMode = ADFrameContinuous + 1
    /\ params.ADNumFrames = MaxNumFrames
    /\ framesRemaining = MaxNumFrames - 1
    /\ delivered = 1
    /\ params.ADAcquire = 1
    /\ callerPc = "out"
    /\ startMode = -1

\* Second witness for C28: during a continuous acquisition the frame mode
\* was set to single; one frame remains.
C28_WhileAcquiring ==
    /\ params.ADFrameMode = ADFrameSingle
    /\ framesRemaining = 1
    /\ delivered = 1
    /\ params.ADAcquire = 1
    /\ acquiring # 0
    /\ callerPc = "out"
    /\ startMode = -1

\* C29: simTask computes an image and delivers a frame only in an iteration
\* at whose start, the mutex taken and the image not yet computed, ADAcquire
\* is set; an event left signalled by an earlier start starts no iteration
\* while ADAcquire is clear.
C29_FrameOnlyWhenAcquiring ==
    [][/\ (TaskStep /\ taskPc = "compute") => params.ADAcquire # 0
       /\ (TaskStep /\ taskPc = "relock" /\ params.ADAcquire = 0) => taskPc' # "compute"]_vars

\* Bytes allocated to the processed buffer.
ImageBufferBytes == IF imageBuffer = NoBuffer THEN 0 ELSE bufferSize

\* C30: ADImageSize is never above the bytes allocated to the processed
\* buffer, so that the memcpy of ADGetImage stays inside it; after a read of
\* a file that made the buffers smaller as at any other time.
C30_ImageSizeWithinBuffer == ~crashed => params.ADImageSize <= ImageBufferBytes

\* C31: framesRemaining is -1 or is not negative, whatever starts, stops,
\* frame modes and requested counts were given, counts of zero and below
\* included.
C31_FramesRemainingRange == framesRemaining = -1 \/ framesRemaining >= 0

\* C32: the image-data callback is called, by an iteration of simTask or by
\* a snapshot read, only when ADSetImageDataCallback has registered one.
C32_CallbackRegisteredFirst ==
    [][(TaskDelivery \/ SuccessfulRead) => callbackSet]_vars

\* C33: on the builds that evaluate minX+sizeX and minY+sizeY modulo 2^32,
\* once the corrections of simComputeImage have run (and nothing has written
\* a geometry parameter since), the stored offset plus the stored size is at
\* most the maximum size on either axis, the sum taken in the integers
\* (written as size <= maximum - offset, which is the same there).
C33_SizeClampExact ==
    (settled /\ build.ovf = "wrap") =>
       /\ params.ADSizeX <= params.ADMaxSizeX - params.ADMinX
       /\ params.ADSizeY <= params.ADMaxSizeY - params.ADMinY

====
